---- MODULE Spec2Model ----
(***************************************************************************)
(* mudcrab: the Telnet codec, the Telnet option-negotiation state machine  *)
(* and the per-connection accept / read / decode pipeline.                 *)
(*                                                                         *)
(* Rust slices are indexed from 0, TLA+ sequences from 1: src[i] in the    *)
(* source is src[i+1] here, and a Rust position p (0-based) is kept as the *)
(* same number p, so that src[a..p] is SubSeq(src, a+1, p).                *)
(***************************************************************************)
EXTENDS Integers, Sequences, FiniteSets, TLC

VARIABLES
    src,        \* codec: the buffer still to be decoded
    input,      \* codec: the buffer from_bytes was last applied to
    answer,     \* codec: what from_bytes returned on input
    accepted,   \* whether the listener has accepted the connection
    prot,       \* the connection's protocol record (see ProtocolComponent_telnet)
    read_buff,  \* ConnectionComponent.read_buff
    new_data,   \* ConnectionComponent.new_data
    pending,    \* bytes the peer has sent that no read has returned yet
    nsent,      \* how many frames or messages the peer has sent
    hist,       \* the message processed last and the record before it
    trace,      \* everything the peer has sent so far, oldest first
    peers,      \* two connected FSMs: the protocol record of each side
    wire,       \* two connected FSMs: the bytes in flight to each side
    eng         \* the engine's view of the connection: tick stage, statuses,
                \* poll readiness, out-event queue, what the transport has seen

codecVars == <<src, input, answer>>
connVars == <<accepted, prot, read_buff, new_data, pending, nsent, hist, trace>>
pairVars == <<peers, wire>>
engVars == <<eng>>
vars == <<src, input, answer, accepted, prot, read_buff, new_data, pending, nsent,
          hist, trace, peers, wire, eng>>

(***************************************************************************)
(* net/telnet/codes.rs: the Telnet command and option codes.               *)
(***************************************************************************)
IAC == 255
DONT == 254
DO == 253
WONT == 252
WILL == 251
SB == 250
SE == 240
SGA == 3
TELOPT_EOR == 25
NAWS == 31
LINEMODE == 34
MTTS == 24
MSDP == 69
MSSP == 70
MXP == 91
GMCP == 201
LF == 10

(***************************************************************************)
(* Bounds of the model.                                                    *)
(***************************************************************************)
MaxLen == 6

(***************************************************************************)
(* TelnetMessage and the Option<(TelnetMessage, usize)> from_bytes returns.*)
(* A panic of the Rust code (an index or a slice out of bounds) is the     *)
(* third outcome, Panic.                                                   *)
(***************************************************************************)
Data(v) == [type |-> "Data", code |-> 0, op |-> 0, data |-> v]
IACMessage(code) == [type |-> "IAC", code |-> code, op |-> 0, data |-> <<>>]
Negotiate(code, op) == [type |-> "Negotiate", code |-> code, op |-> op, data |-> <<>>]
SubNegotiate(code, data) == [type |-> "SubNegotiate", code |-> 0, op |-> code, data |-> data]

None == [kind |-> "None", msg |-> Data(<<>>), len |-> 0]
Some(m, n) == [kind |-> "Some", msg |-> m, len |-> n]
Panic == [kind |-> "Panic", msg |-> Data(<<>>), len |-> 0]

\* to_vec with the two bytes after IAC of a negotiation in the wrong order
to_vec_swapped(m) ==
    CASE m.type = "Data" -> m.data
      [] m.type = "IAC" -> <<IAC, m.code>>
      [] m.type = "Negotiate" -> <<IAC, m.op, m.code>>
      [] m.type = "SubNegotiate" -> <<IAC, SB, m.op>> \o m.data \o <<IAC, SE>>

\* TelnetMessage::to_vec
to_vec(m) ==
    CASE m.type = "Data" -> m.data
      [] m.type = "IAC" -> <<IAC, m.code>>
      [] m.type = "Negotiate" -> <<IAC, m.code, m.op>>
      [] m.type = "SubNegotiate" -> <<IAC, SB, m.op>> \o m.data \o <<IAC, SE>>

\* src.iter().position(|b| b == &byte): the 0-based index of the first byte
\* equal to byte, or -1 when there is none.
position(s, byte) ==
    IF \E i \in 1..Len(s) : s[i] = byte
    THEN (CHOOSE i \in 1..Len(s) : s[i] = byte /\ \A j \in 1..(i-1) : s[j] # byte) - 1
    ELSE -1

\* src.windows(2).position(|b| b[0] == IAC && b[1] == SE): the 0-based index
\* of the first IAC SE pair, or -1 when there is none.
windows_position(s) ==
    LET hit(i) == s[i] = IAC /\ s[i+1] = SE
    IN  IF \E i \in 1..(Len(s)-1) : hit(i)
        THEN (CHOOSE i \in 1..(Len(s)-1) : hit(i) /\ \A j \in 1..(i-1) : ~hit(j)) - 1
        ELSE -1

\* TelnetMessage::from_bytes
from_bytes(s) ==
    IF Len(s) = 0 THEN None
    ELSE IF s[1] = IAC THEN
        IF Len(s) < 2 THEN Panic                        \* src[1] is out of bounds
        ELSE IF s[2] = IAC THEN Some(Data(<<IAC>>), 2)
        ELSE IF s[2] \in {WILL, WONT, DO, DONT} THEN
            IF Len(s) > 2 THEN Some(Negotiate(s[2], s[3]), 3) ELSE None
        ELSE IF s[2] = SB THEN
            IF Len(s) > 4 THEN
                LET ipos == windows_position(s)
                IN  IF ipos >= 0
                    THEN IF ipos < 3 THEN Panic         \* src[3..ipos] with ipos = 2
                         ELSE Some(SubNegotiate(s[3], SubSeq(s, 4, ipos)), ipos + 2)
                    ELSE None
            ELSE None
        ELSE Some(IACMessage(s[2]), 2)
    ELSE
        LET ipos == position(s, IAC)
        IN  IF ipos >= 0 THEN Some(Data(SubSeq(s, 1, ipos)), ipos)
            ELSE Some(Data(s), Len(s))

\* BytesMut::advance(len)
advance(s, n) == SubSeq(s, n + 1, Len(s))

(***************************************************************************)
(* Strings are sequences of bytes.  String::from_utf8 succeeds exactly on  *)
(* well-formed UTF-8; trim and to_uppercase are modelled on ASCII, which   *)
(* is all the text the inputs of this model contain.                       *)
(***************************************************************************)
RECURSIVE utf8_from(_, _)
utf8_from(s, i) ==
    IF i > Len(s) THEN TRUE
    ELSE LET b == s[i]
             cont(k, lo, hi) == k <= Len(s) /\ s[k] >= lo /\ s[k] <= hi
         IN  IF b < 128 THEN utf8_from(s, i + 1)
             ELSE IF b >= 194 /\ b <= 223 THEN cont(i+1, 128, 191) /\ utf8_from(s, i + 2)
             ELSE IF b >= 224 /\ b <= 239 THEN
                 /\ cont(i+1, IF b = 224 THEN 160 ELSE 128, IF b = 237 THEN 159 ELSE 191)
                 /\ cont(i+2, 128, 191)
                 /\ utf8_from(s, i + 3)
             ELSE IF b >= 240 /\ b <= 244 THEN
                 /\ cont(i+1, IF b = 240 THEN 144 ELSE 128, IF b = 244 THEN 143 ELSE 191)
                 /\ cont(i+2, 128, 191)
                 /\ cont(i+3, 128, 191)
                 /\ utf8_from(s, i + 4)
             ELSE FALSE

\* a decoder that accepts every byte string (a lossy or Latin-1 decode)
from_utf8_any(s) == TRUE

\* String::from_utf8(v).is_ok()
from_utf8_ok(s) == utf8_from(s, 1)

is_whitespace(b) == b \in {9, 10, 11, 12, 13, 32}

\* str::trim
trim(s) ==
    IF \A i \in 1..Len(s) : is_whitespace(s[i]) THEN <<>>
    ELSE LET a == CHOOSE i \in 1..Len(s) : ~is_whitespace(s[i]) /\ \A j \in 1..(i-1) : is_whitespace(s[j])
             b == CHOOSE i \in 1..Len(s) : ~is_whitespace(s[i]) /\ \A j \in (i+1)..Len(s) : is_whitespace(s[j])
         IN  SubSeq(s, a, b)

\* str::to_uppercase
to_uppercase(s) == [i \in 1..Len(s) |-> IF s[i] >= 97 /\ s[i] <= 122 THEN s[i] - 32 ELSE s[i]]

starts_with(s, p) == Len(s) >= Len(p) /\ SubSeq(s, 1, Len(p)) = p
ends_with(s, p) == Len(s) >= Len(p) /\ SubSeq(s, Len(s) - Len(p) + 1, Len(s)) = p
contains(s, b) == \E i \in 1..Len(s) : s[i] = b

SPACE == 32
STR_UNKNOWN == <<85, 78, 75, 78, 79, 87, 78>>
STR_XTERM == <<88, 84, 69, 82, 77>>
STR_256COLOR == <<45, 50, 53, 54, 67, 79, 76, 79, 82>>
STR_MTTS_ == <<77, 84, 84, 83, 32>>
KnownClients ==
    { <<65, 84, 76, 65, 78, 84, 73, 83>>,           \* ATLANTIS
      <<67, 77, 85, 68>>,                           \* CMUD
      <<75, 73, 76, 68, 67, 76, 73, 69, 78, 84>>,   \* KILDCLIENT
      <<77, 85, 68, 76, 69, 84>>,                   \* MUDLET
      <<77, 85, 83, 72, 67, 76, 73, 69, 78, 84>>,   \* MUSHCLIENT
      <<80, 85, 84, 84, 89>>,                       \* PUTTY
      <<66, 69, 73, 80>>,                           \* BEIP
      <<80, 79, 84, 65, 84, 79>>,                   \* POTATO
      <<84, 73, 78, 89, 70, 85, 71, 85, 69>> }      \* TINYFUGUE

\* str::parse::<usize>().unwrap_or(0)
RECURSIVE parse_digits(_, _, _)
parse_digits(s, i, acc) ==
    IF i > Len(s) THEN acc
    ELSE parse_digits(s, i + 1, acc * 10 + (s[i] - 48))
parse_usize(s) ==
    LET digits == IF Len(s) > 0 /\ s[1] = 43 THEN advance(s, 1) ELSE s
    IN  IF Len(digits) > 0 /\ \A i \in 1..Len(digits) : digits[i] >= 48 /\ digits[i] <= 57
        THEN parse_digits(digits, 1, 0)
        ELSE 0

\* mtts & bit == bit, for bit a power of two
has_bit(n, bit) == (n \div bit) % 2 = 1

(***************************************************************************)
(* The record one connection owns: the TelnetProtocol (op_state,           *)
(* telnet_options, handshakes_left, app_buffer, mtts_last), the            *)
(* ProtocolComponent's capabilities and event buffer, the                  *)
(* ConnectionComponent's write_buff that every writer appends to, and two  *)
(* observations: panicked (a Rust panic unwound the handler) and calls     *)
(* (the enable/disable hooks called, in order).                            *)
(***************************************************************************)
TelnetOptionPerspective == [enabled |-> FALSE, negotiating |-> FALSE]
TelnetOptionState == [remote |-> TelnetOptionPerspective, local |-> TelnetOptionPerspective]
TelnetOption(al, ar, sr, sl) ==
    [allow_local |-> al, allow_remote |-> ar, start_remote |-> sr, start_local |-> sl]
TelnetHandshakes == [local |-> {}, remote |-> {}, mtts |-> {}]

\* variants of the policy table: with the commented-out MXP entry switched on,
\* and with the start flags of every entry exchanged
TelnetOptionsWithMXP ==
    (SGA :> TelnetOption(TRUE, TRUE, FALSE, TRUE))
 @@ (NAWS :> TelnetOption(FALSE, TRUE, TRUE, FALSE))
 @@ (MTTS :> TelnetOption(FALSE, TRUE, TRUE, FALSE))
 @@ (MXP :> TelnetOption(TRUE, TRUE, FALSE, TRUE))
 @@ (MSSP :> TelnetOption(TRUE, TRUE, FALSE, TRUE))
 @@ (GMCP :> TelnetOption(TRUE, TRUE, FALSE, TRUE))
 @@ (MSDP :> TelnetOption(TRUE, TRUE, FALSE, TRUE))
 @@ (LINEMODE :> TelnetOption(FALSE, TRUE, TRUE, FALSE))
 @@ (TELOPT_EOR :> TelnetOption(TRUE, TRUE, FALSE, TRUE))
TelnetOptionsStartExchanged ==
    (SGA :> TelnetOption(TRUE, TRUE, TRUE, FALSE))
 @@ (NAWS :> TelnetOption(FALSE, TRUE, FALSE, TRUE))
 @@ (MTTS :> TelnetOption(FALSE, TRUE, FALSE, TRUE))
 @@ (MSSP :> TelnetOption(TRUE, TRUE, TRUE, FALSE))
 @@ (GMCP :> TelnetOption(TRUE, TRUE, TRUE, FALSE))
 @@ (MSDP :> TelnetOption(TRUE, TRUE, TRUE, FALSE))
 @@ (LINEMODE :> TelnetOption(FALSE, TRUE, FALSE, TRUE))
 @@ (TELOPT_EOR :> TelnetOption(TRUE, TRUE, TRUE, FALSE))

\* impl Default for TelnetOptions
TelnetOptionsDefault ==
    (SGA :> TelnetOption(TRUE, TRUE, FALSE, TRUE))
 @@ (NAWS :> TelnetOption(FALSE, TRUE, TRUE, FALSE))
 @@ (MTTS :> TelnetOption(FALSE, TRUE, TRUE, FALSE))
 @@ (MSSP :> TelnetOption(TRUE, TRUE, FALSE, TRUE))
 @@ (GMCP :> TelnetOption(TRUE, TRUE, FALSE, TRUE))
 @@ (MSDP :> TelnetOption(TRUE, TRUE, FALSE, TRUE))
 @@ (LINEMODE :> TelnetOption(FALSE, TRUE, TRUE, FALSE))
 @@ (TELOPT_EOR :> TelnetOption(TRUE, TRUE, FALSE, TRUE))

\* impl Default for ProtocolCapabilities
ProtocolCapabilities ==
    [client_name |-> STR_UNKNOWN, client_version |-> STR_UNKNOWN,
     utf8 |-> FALSE, mxp |-> FALSE, mtts |-> FALSE, naws |-> FALSE, sga |-> FALSE,
     linemode |-> FALSE, width |-> 78, height |-> 24, screen_reader |-> FALSE,
     vt100 |-> FALSE, mouse_tracking |-> FALSE, osc_color_palette |-> FALSE,
     mnes |-> FALSE, proxy |-> FALSE, xterm256 |-> FALSE, ansi |-> FALSE,
     truecolor |-> FALSE]

NoString == [some |-> FALSE, val |-> <<>>]
SomeString(s) == [some |-> TRUE, val |-> s]

\* TelnetProtocol::new and ProtocolComponent::telnet, with the empty
\* write_buff of ConnectionComponent::new
ProtocolComponent_telnet(options) ==
    [op_state |-> [k \in DOMAIN options |-> TelnetOptionState],
     telnet_options |-> options,
     handshakes_left |-> TelnetHandshakes,
     app_buffer |-> <<>>,
     mtts_last |-> NoString,
     capabilities |-> ProtocolCapabilities,
     buffer |-> <<>>,
     write_buff |-> <<>>,
     panicked |-> FALSE,
     calls |-> <<>>]

Line(s) == [type |-> "Line", op |-> 0, text |-> s]
LocalHandshake(op) == [type |-> "LocalHandshake", op |-> op, text |-> <<>>]
RemoteHandshake(op) == [type |-> "RemoteHandshake", op |-> op, text |-> <<>>]

\* send_data as a write loop that sends the whole buffer on each of three tries
send_data_retry(p, data) == [p EXCEPT !.write_buff = @ \o data \o data \o data]

\* TelnetProtocol::send_data, through impl Write for ConnectionComponent
send_data(p, data) == [p EXCEPT !.write_buff = @ \o data]

\* TelnetProtocol::send_sub
send_sub(p, op, data) == send_data(p, <<IAC, SB, op>> \o data \o <<IAC, SE>>)

called(p, hook, op) == [p EXCEPT !.calls = Append(@, <<hook, op>>)]

\* TelnetProtocol::enable_local
enable_local(p0, op) ==
    LET p == called(p0, "enable_local", op)
    IN  IF op = SGA THEN [p EXCEPT !.capabilities.sga = TRUE]
        ELSE IF op = MXP THEN send_sub([p EXCEPT !.capabilities.mxp = TRUE], MXP, <<>>)
        ELSE p

\* TelnetProtocol::enable_remote
enable_remote(p0, op) ==
    LET p == called(p0, "enable_remote", op)
    IN  IF op = NAWS THEN [p EXCEPT !.capabilities.naws = TRUE]
        ELSE IF op = MTTS THEN
            send_sub([p EXCEPT !.handshakes_left.mtts = @ \cup {0, 1, 2}], MTTS, <<1>>)
        ELSE IF op = LINEMODE THEN [p EXCEPT !.capabilities.linemode = TRUE]
        ELSE p

\* disable_remote that leaves the window size as it is
disable_remote_keep_size(p0, op) ==
    LET p == called(p0, "disable_remote", op)
    IN  IF op = NAWS THEN [p EXCEPT !.capabilities.naws = FALSE]
        ELSE IF op = MTTS THEN [p EXCEPT !.capabilities.mtts = FALSE,
                                         !.handshakes_left.mtts = {}]
        ELSE IF op = LINEMODE THEN [p EXCEPT !.capabilities.linemode = FALSE]
        ELSE p

\* TelnetProtocol::disable_remote
disable_remote(p0, op) ==
    LET p == called(p0, "disable_remote", op)
    IN  IF op = NAWS THEN [p EXCEPT !.capabilities.naws = FALSE,
                                    !.capabilities.width = 78,
                                    !.capabilities.height = 24]
        ELSE IF op = MTTS THEN [p EXCEPT !.capabilities.mtts = FALSE,
                                         !.handshakes_left.mtts = {}]
        ELSE IF op = LINEMODE THEN [p EXCEPT !.capabilities.linemode = FALSE]
        ELSE p

\* disable_local that leaves the capabilities as they are
disable_local_keep(p0, op) == called(p0, "disable_local", op)

\* TelnetProtocol::disable_local
disable_local(p0, op) ==
    LET p == called(p0, "disable_local", op)
    IN  IF op = SGA THEN [p EXCEPT !.capabilities.sga = FALSE]
        ELSE IF op = MXP THEN [p EXCEPT !.capabilities.mxp = FALSE]
        ELSE p

\* respond that agrees to an option it has no state for
negotiate_respond_agree(known, state, command) ==
    IF known
    THEN IF command = WILL /\ ~state.remote.enabled /\ ~state.remote.negotiating THEN DO
         ELSE IF command = DO /\ ~state.local.enabled /\ ~state.local.negotiating THEN WILL
         ELSE 0
    ELSE IF command = WILL THEN DO
         ELSE IF command = DO THEN WILL
         ELSE 0

\* respond that answers a WILL or DO whether or not the option is already on
negotiate_respond_always(known, state, command) ==
    IF known
    THEN IF command = WILL /\ ~state.remote.negotiating THEN DO
         ELSE IF command = DO /\ ~state.local.negotiating THEN WILL
         ELSE 0
    ELSE IF command = WILL THEN DONT
         ELSE IF command = DO THEN WONT
         ELSE 0

\* TelnetProtocol::receive_negotiate: the reply command it chooses (respond),
\* 0 for none.  known: op has a TelnetOptionState, which is then state.
negotiate_respond(known, state, command) ==
    IF known
    THEN IF command = WILL /\ ~state.remote.enabled /\ ~state.remote.negotiating THEN DO
         ELSE IF command = DO /\ ~state.local.enabled /\ ~state.local.negotiating THEN WILL
         ELSE 0
    ELSE IF command = WILL THEN DONT
         ELSE IF command = DO THEN WONT
         ELSE 0

\* the match on command with WONT and DONT leaving enabled as it was
negotiate_state_keep(state, command) ==
    IF command = WILL THEN
        IF ~state.remote.enabled
        THEN [state EXCEPT !.remote.negotiating = FALSE, !.remote.enabled = TRUE]
        ELSE state
    ELSE IF command = WONT THEN [state EXCEPT !.remote.negotiating = FALSE]
    ELSE IF command = DO THEN
        IF ~state.local.enabled
        THEN [state EXCEPT !.local.negotiating = FALSE, !.local.enabled = TRUE]
        ELSE state
    ELSE IF command = DONT THEN [state EXCEPT !.local.negotiating = FALSE]
    ELSE state

\* TelnetProtocol::receive_negotiate: what the match on command leaves in the
\* option's TelnetOptionState
negotiate_state(state, command) ==
    IF command = WILL THEN
        IF ~state.remote.enabled
        THEN [state EXCEPT !.remote.negotiating = FALSE, !.remote.enabled = TRUE]
        ELSE state
    ELSE IF command = WONT THEN
        [state EXCEPT !.remote.negotiating = FALSE, !.remote.enabled = FALSE]
    ELSE IF command = DO THEN
        IF ~state.local.enabled
        THEN [state EXCEPT !.local.negotiating = FALSE, !.local.enabled = TRUE]
        ELSE state
    ELSE IF command = DONT THEN
        [state EXCEPT !.local.negotiating = FALSE, !.local.enabled = FALSE]
    ELSE state

\* events with a handshake reported only when a request of ours was pending
negotiate_events_pending(known, state, command, op) ==
    LET handshake_local ==
            IF known /\ command \in {DO, DONT} /\ state.local.negotiating THEN op ELSE 0
        handshake_remote ==
            IF known /\ command \in {WILL, WONT} /\ state.remote.negotiating THEN op ELSE 0
    IN  (IF handshake_local > 0 THEN <<LocalHandshake(op)>> ELSE <<>>)
        \o (IF handshake_remote > 0 THEN <<RemoteHandshake(op)>> ELSE <<>>)

\* TelnetProtocol::receive_negotiate: the events it pushes, LocalHandshake
\* before RemoteHandshake
negotiate_events(known, state, command, op) ==
    LET handshake_local ==
            IF known /\ ( (command = DO /\ ~state.local.enabled)
                       \/ (command = DONT /\ state.local.negotiating) ) THEN op ELSE 0
        handshake_remote ==
            IF known /\ ( (command = WILL /\ ~state.remote.enabled)
                       \/ (command = WONT /\ state.remote.negotiating) ) THEN op ELSE 0
    IN  (IF handshake_local > 0 THEN <<LocalHandshake(op)>> ELSE <<>>)
        \o (IF handshake_remote > 0 THEN <<RemoteHandshake(op)>> ELSE <<>>)

\* TelnetProtocol::receive_negotiate
receive_negotiate(p, command, op) ==
    LET known == op \in DOMAIN p.op_state
        state == IF known THEN p.op_state[op] ELSE TelnetOptionState
        respond == negotiate_respond(known, state, command)
        enable_local_flag == known /\ command = DO /\ ~state.local.enabled
        disable_local_flag == known /\ command = DONT /\ state.local.enabled
        enable_remote_flag == known /\ command = WILL /\ ~state.remote.enabled
        disable_remote_flag == known /\ command = WONT /\ state.remote.enabled
        p1 == IF known THEN [p EXCEPT !.op_state[op] = negotiate_state(state, command)] ELSE p
        p2 == IF respond > 0 THEN send_data(p1, <<IAC, respond, op>>) ELSE p1
        p3 == [p2 EXCEPT !.buffer = @ \o negotiate_events(known, state, command, op)]
        p4 == IF enable_local_flag THEN enable_local(p3, op) ELSE p3
        p5 == IF disable_local_flag THEN disable_local(p4, op) ELSE p4
        p6 == IF enable_remote_flag THEN enable_remote(p5, op) ELSE p5
        p7 == IF disable_remote_flag THEN disable_remote(p6, op) ELSE p6
    IN  p7

\* TelnetProtocol::receive_naws; BytesMut::get_u16 reads big-endian
\* receive_naws that reads the two u16 little-endian
receive_naws_le(p, data) ==
    IF Len(data) >= 4
    THEN [p EXCEPT !.capabilities.width = data[2] * 256 + data[1],
                   !.capabilities.height = data[4] * 256 + data[3]]
    ELSE p

\* TelnetProtocol::receive_naws: two get_u16, big-endian
receive_naws(p, data) ==
    IF Len(data) >= 4
    THEN [p EXCEPT !.capabilities.width = data[1] * 256 + data[2],
                   !.capabilities.height = data[3] * 256 + data[4]]
    ELSE p

\* the rule both round 0 and round 1 apply
xterm_rule(s) == starts_with(s, STR_XTERM) \/ ends_with(s, STR_256COLOR)

\* TelnetProtocol::receive_mtts_0.  data.splitn(1, " ") yields one item, so
\* results[1] is out of bounds whenever data holds a space.
receive_mtts_0(p, data) ==
    IF contains(data, SPACE)
    THEN [p EXCEPT !.capabilities.client_name = data, !.panicked = TRUE]
    ELSE LET p1 == [p EXCEPT !.capabilities.client_name = data]
         IN  IF data \in KnownClients \/ xterm_rule(data)
             THEN [p1 EXCEPT !.capabilities.xterm256 = TRUE, !.capabilities.ansi = TRUE]
             ELSE p1

\* TelnetProtocol::receive_mtts_1
receive_mtts_1(p, data) ==
    IF xterm_rule(data)
    THEN [p EXCEPT !.capabilities.xterm256 = TRUE, !.capabilities.ansi = TRUE]
    ELSE p

\* TelnetProtocol::receive_mtts_2.  data.splitn(2, " ")[1] is everything
\* after the first space, which starts_with("MTTS ") puts at index 4.
receive_mtts_2(p, data) ==
    IF ~starts_with(data, STR_MTTS_) THEN p
    ELSE LET mtts == parse_usize(advance(data, 5))
             c == p.capabilities
         IN  IF mtts = 0 THEN p
             ELSE [p EXCEPT !.capabilities =
                    [c EXCEPT !.ansi = c.ansi \/ has_bit(mtts, 1),
                              !.vt100 = c.vt100 \/ has_bit(mtts, 2),
                              !.utf8 = c.utf8 \/ has_bit(mtts, 4),
                              !.xterm256 = c.xterm256 \/ has_bit(mtts, 8),
                              !.mouse_tracking = c.mouse_tracking \/ has_bit(mtts, 16),
                              !.osc_color_palette = c.osc_color_palette \/ has_bit(mtts, 32),
                              !.screen_reader = c.screen_reader \/ has_bit(mtts, 64),
                              !.proxy = c.proxy \/ has_bit(mtts, 128),
                              !.truecolor = c.truecolor \/ has_bit(mtts, 256),
                              !.mnes = c.mnes \/ has_bit(mtts, 512)]]

\* the round numbers receive_mtts tests the handshake set for
hs1 == 0
hs2 == 0
hs3 == 0

\* a loop guard that leaves the handshake set as it is
mtts_clear_keep(p) == p

\* the loop guard of receive_mtts: handshakes_left.mtts.clear(); return
mtts_clear(p) == [p EXCEPT !.handshakes_left.mtts = {}]

\* TelnetProtocol::receive_mtts
receive_mtts(p, data) ==
    IF Len(data) < 2 THEN p
    ELSE IF p.handshakes_left.mtts = {} THEN p
    ELSE IF data[1] # 0 THEN p
    ELSE LET text == advance(data, 1)
         IN  IF ~from_utf8_ok(text) THEN p
             ELSE LET upper == to_uppercase(trim(text))
                  IN  IF p.mtts_last.some /\ p.mtts_last.val = upper
                      THEN mtts_clear(p)
                      ELSE LET p1 == [p EXCEPT !.mtts_last = SomeString(upper)]
                               left == p1.handshakes_left.mtts
                           IN  IF hs1 \in left THEN
                                   LET q == receive_mtts_0(called(p1, "receive_mtts_0", MTTS), upper)
                                   IN  IF q.panicked THEN q
                                       ELSE send_sub([q EXCEPT !.handshakes_left.mtts = @ \ {hs1}],
                                                     MTTS, <<1>>)
                               ELSE IF hs2 \in left THEN
                                   send_sub([receive_mtts_1(called(p1, "receive_mtts_1", MTTS), upper)
                                                EXCEPT !.handshakes_left.mtts = @ \ {hs2}],
                                            MTTS, <<1>>)
                               ELSE IF hs3 \in left THEN
                                   [receive_mtts_2(called(p1, "receive_mtts_2", MTTS), upper)
                                        EXCEPT !.handshakes_left.mtts = @ \ {hs3}]
                               ELSE p1

\* receive_sub that hands an MTTS payload on whatever its first byte is
receive_sub_lax(p, op, data) ==
    IF op \notin DOMAIN p.op_state THEN p
    ELSE IF op = NAWS THEN receive_naws(p, data)
    ELSE IF op = MTTS /\ data # <<>> THEN receive_mtts(p, <<0>> \o Tail(data))
    ELSE p

\* TelnetProtocol::receive_sub
receive_sub(p, op, data) ==
    IF op \notin DOMAIN p.op_state THEN p
    ELSE IF op = NAWS THEN receive_naws(p, data)
    ELSE IF op = MTTS THEN receive_mtts(p, data)
    ELSE p

\* the while loop of TelnetProtocol::receive_data
RECURSIVE split_lines(_)
split_lines(p) ==
    LET ipos == position(p.app_buffer, LF)
    IN  IF ipos < 0 THEN p
        ELSE LET cmd == SubSeq(p.app_buffer, 1, ipos)
                 rest == advance(p.app_buffer, ipos + 1)
             IN  split_lines([p EXCEPT !.app_buffer = rest,
                                       !.buffer = IF from_utf8_ok(cmd)
                                                  THEN Append(@, Line(trim(cmd)))
                                                  ELSE @])

\* receive_data that starts from the new bytes alone
receive_data_restart(p, data) == split_lines([p EXCEPT !.app_buffer = data])

\* TelnetProtocol::receive_data
receive_data(p, data) == split_lines([p EXCEPT !.app_buffer = @ \o data])

\* TelnetProtocol::receive_command
receive_command(p, command) == p

\* TelnetProtocol::process_message
process_message(p, msg) ==
    CASE msg.type = "SubNegotiate" -> receive_sub(p, msg.op, msg.data)
      [] msg.type = "Negotiate" -> receive_negotiate(p, msg.code, msg.op)
      [] msg.type = "IAC" -> receive_command(p, msg.code)
      [] msg.type = "Data" -> receive_data(p, msg.data)

\* start that requests both sides of every option that has a start flag
RECURSIVE start_bytes_both(_, _)
start_bytes_both(options, keys) ==
    IF keys = <<>> THEN <<>>
    ELSE LET k == Head(keys)
             v == options[k]
         IN  (IF v.start_local \/ v.start_remote THEN <<IAC, WILL, k, IAC, DO, k>> ELSE <<>>)
             \o start_bytes_both(options, Tail(keys))

\* the bytes TelnetProtocol::start writes when it visits the options in the
\* order keys (a HashMap iterates in an arbitrary order)
RECURSIVE start_bytes(_, _)
start_bytes(options, keys) ==
    IF keys = <<>> THEN <<>>
    ELSE LET k == Head(keys)
             v == options[k]
         IN  (IF v.start_local THEN <<IAC, WILL, k>> ELSE <<>>)
             \o (IF v.start_remote THEN <<IAC, DO, k>> ELSE <<>>)
             \o start_bytes(options, Tail(keys))

\* TelnetProtocol::start
start(p, keys) == send_data(p, start_bytes(p.telnet_options, keys))

\* ProtocolComponent::process_new_data on the inbound buffer rb (the
\* connection's read_buff): the pair of the record and the buffer left when
\* the loop ends.
RECURSIVE process_new_data(_, _)
process_new_data(p, rb) ==
    LET r == from_bytes(rb)
    IN  IF r.kind = "None" THEN <<p, rb>>
        ELSE IF r.kind = "Panic" THEN <<[p EXCEPT !.panicked = TRUE], rb>>
        ELSE LET q == process_message(p, r.msg)
             IN  IF q.panicked THEN <<q, advance(rb, r.len)>>
                 ELSE process_new_data(q, advance(rb, r.len))

(***************************************************************************)
(* net/mod.rs, engine/systems.rs: the out-event serializer.  A Text is     *)
(* kept as the bytes its rendering yields.                                 *)
(***************************************************************************)
\* enum ProtocolOutEvent
OutLine(t) == [type |-> "Line", text |-> t]
OutPrompt(t) == [type |-> "Prompt", text |-> t]
OutOOB == [type |-> "OOB", text |-> <<>>]
OutMSSP == [type |-> "MSSP", text |-> <<>>]

\* Text::render: the renderer is an external collaborator that yields bytes
render(text, capabilities) == text

\* TelnetProtocol::send_text: the rendered line and its line ending go out
\* through send_data
send_text(p, bytes) == send_data(called(p, "send_text", bytes), bytes \o <<13, LF>>)

\* ProtocolComponent::send_event
send_event(p, event) ==
    IF event.type = "Line"
    THEN send_text(p, render(event.text, p.capabilities))
    ELSE p

\* send_out_events: while let Some(ev) = out_buffer.pop_front()
RECURSIVE send_out_events(_, _)
send_out_events(p, out_buffer) ==
    IF out_buffer = <<>> THEN p
    ELSE send_out_events(send_event(p, Head(out_buffer)), Tail(out_buffer))

(***************************************************************************)
(* net/mod.rs: the protocol variants.  A WebSocket or SSH connection has   *)
(* no Telnet FSM: its record has an empty option table.                    *)
(***************************************************************************)
Protocols == {"Telnet", "WebSocket", "SSH"}
NoOptions == [k \in {} |-> TelnetOption(FALSE, FALSE, FALSE, FALSE)]

\* ProtocolComponent::websocket, with ProtocolCapabilities::websocket
ProtocolComponent_websocket ==
    [ProtocolComponent_telnet(NoOptions) EXCEPT !.capabilities.utf8 = TRUE]

\* ProtocolComponent::ssh
ProtocolComponent_ssh == ProtocolComponent_telnet(NoOptions)

\* accept_new_connections: let mut prot = match lis.protocol
new_protocol(protocol, tel_opts) ==
    CASE protocol = "Telnet" -> ProtocolComponent_telnet(tel_opts)
      [] protocol = "WebSocket" -> ProtocolComponent_websocket
      [] protocol = "SSH" -> ProtocolComponent_ssh

\* a start that runs the Telnet start for every protocol
ProtocolComponent_start_telnet(protocol, p, keys) ==
    start(ProtocolComponent_telnet(TelnetOptionsDefault), keys)

\* ProtocolComponent::start
ProtocolComponent_start(protocol, p, keys) ==
    IF protocol = "Telnet" THEN start(p, keys) ELSE p

\* ProtocolComponent::process_new_data
ProtocolComponent_process_new_data(protocol, p, rb) ==
    IF protocol = "Telnet" THEN process_new_data(p, rb) ELSE <<p, rb>>

\* process_connection_newdata that leaves the flag as it finds it
process_connection_newdata_dirty(protocol, p, rb, nd) ==
    IF ~nd THEN [p |-> p, read_buff |-> rb, new_data |-> nd]
    ELSE LET r == ProtocolComponent_process_new_data(protocol, p, rb)
         IN  [p |-> r[1], read_buff |-> r[2], new_data |-> nd]

\* process_connection_newdata on the protocol record p, the inbound buffer
\* rb and the flag nd: if conn.new_data { prot.process_new_data(conn);
\* conn.new_data = false }.  A panic in process_new_data leaves the flag.
process_connection_newdata(protocol, p, rb, nd) ==
    IF ~nd THEN [p |-> p, read_buff |-> rb, new_data |-> nd]
    ELSE LET r == ProtocolComponent_process_new_data(protocol, p, rb)
         IN  [p |-> r[1], read_buff |-> r[2], new_data |-> r[1].panicked]

\* the negotiation deadline, in ticks
NegotiationDeadline == 2
WelcomePrompt == OutPrompt(<<62>>)

\* the transition to Active, which surfaces the welcome prompt
activate(e) == [e EXCEPT !.pstatus = "Active", !.out_buffer = Append(@, WelcomePrompt)]

\* ProtocolComponent::health_check on the engine-side record e of a
\* connection whose protocol record is p: a Telnet connection in
\* Negotiating becomes Active once no handshake is left, and is forced to
\* Active once the deadline has passed; WebSocket and SSH become Active at
\* once.
health_check(e, p) ==
    IF e.pstatus # "Negotiating" THEN e
    ELSE IF e.protocol # "Telnet" THEN activate(e)
    ELSE IF /\ p.handshakes_left.local = {}
            /\ p.handshakes_left.remote = {}
            /\ p.handshakes_left.mtts = {}
         THEN activate(e)
    ELSE IF e.age > NegotiationDeadline THEN activate(e)
    ELSE e

(***************************************************************************)
(* engine/systems.rs: the read and write stages.  A connection is the      *)
(* record c of the fields the stages use (status, read_buff, new_data,     *)
(* write_ready, write_buff) and of what the transport saw: returned, the   *)
(* bytes its reads have returned; sent, the bytes its writes have          *)
(* accepted; io, one entry per call of the pass with the connection's      *)
(* status and write_ready at the time of the call.  The transport's        *)
(* answers are an input: a sequence of results, taken one per call.        *)
(***************************************************************************)
Ok(bytes) == [kind |-> "Ok", bytes |-> bytes, len |-> Len(bytes)]
Wrote(len) == [kind |-> "Ok", bytes |-> <<>>, len |-> len]
WouldBlock == [kind |-> "WouldBlock", bytes |-> <<>>, len |-> 0]
OtherError == [kind |-> "Other", bytes |-> <<>>, len |-> 0]
Call(c, op, a) ==
    [op |-> op, status |-> c.status, ready |-> c.write_ready,
     kind |-> a.kind, bytes |-> a.bytes, len |-> a.len]

\* a read loop that replaces the inbound buffer by what it has just read
RECURSIVE read_loop_replace(_, _, _)
read_loop_replace(c, answers, total_bytes) ==
    LET a == Head(answers)
        c1 == [c EXCEPT !.io = Append(@, Call(c, "read", a))]
        done(d) == IF total_bytes > 0 THEN [d EXCEPT !.new_data = TRUE] ELSE d
    IN  IF a.kind = "Ok" THEN
            IF a.len = 0 THEN done([c1 EXCEPT !.status = "ClientEOF"])
            ELSE read_loop_replace([c1 EXCEPT !.read_buff = a.bytes,
                                              !.returned = @ \o a.bytes],
                                   Tail(answers), total_bytes + a.len)
        ELSE IF a.kind = "WouldBlock" THEN done(c1)
        ELSE done([c1 EXCEPT !.status = "ClientError"])

\* the loop of process_connection_read and the new_data flag after it
RECURSIVE read_loop(_, _, _)
read_loop(c, answers, total_bytes) ==
    LET a == Head(answers)
        c1 == [c EXCEPT !.io = Append(@, Call(c, "read", a))]
        done(d) == IF total_bytes > 0 THEN [d EXCEPT !.new_data = TRUE] ELSE d
    IN  IF a.kind = "Ok" THEN
            IF a.len = 0 THEN done([c1 EXCEPT !.status = "ClientEOF"])
            ELSE read_loop([c1 EXCEPT !.read_buff = @ \o a.bytes,
                                      !.returned = @ \o a.bytes],
                           Tail(answers), total_bytes + a.len)
        ELSE IF a.kind = "WouldBlock" THEN done(c1)
        ELSE done([c1 EXCEPT !.status = "ClientError"])

\* process_connection_read without the test of read_ready
process_connection_read_unpolled(c, read_ready, answers) == read_loop(c, answers, 0)

\* process_connection_read
process_connection_read(c, read_ready, answers) ==
    IF ~read_ready THEN c ELSE read_loop(c, answers, 0)

\* a write loop that drops the whole buffer after a successful write
RECURSIVE write_loop_clear(_, _)
write_loop_clear(c, answers) ==
    IF c.write_buff = <<>> THEN c
    ELSE LET a == Head(answers)
             c1 == [c EXCEPT !.io = Append(@, Call(c, "write", a))]
         IN  IF a.kind = "Ok" THEN
                 write_loop_clear([c1 EXCEPT !.sent = @ \o SubSeq(c.write_buff, 1, a.len),
                                             !.write_buff = <<>>],
                                  Tail(answers))
             ELSE IF a.kind = "WouldBlock" THEN [c1 EXCEPT !.write_ready = FALSE]
             ELSE c1

\* the loop of process_connection_outgoing: the transport accepts the first
\* len bytes of the buffer it is handed
RECURSIVE write_loop(_, _)
write_loop(c, answers) ==
    IF c.write_buff = <<>> THEN c
    ELSE LET a == Head(answers)
             c1 == [c EXCEPT !.io = Append(@, Call(c, "write", a))]
         IN  IF a.kind = "Ok" THEN
                 write_loop([c1 EXCEPT !.sent = @ \o SubSeq(c.write_buff, 1, a.len),
                                       !.write_buff = advance(@, a.len)],
                            Tail(answers))
             ELSE IF a.kind = "WouldBlock" THEN [c1 EXCEPT !.write_ready = FALSE]
             ELSE c1

\* process_connection_outgoing that flushes whether or not the connection
\* is writable
process_connection_outgoing_eager(c, write_ready, answers) ==
    write_loop(IF write_ready THEN [c EXCEPT !.write_ready = TRUE] ELSE c, answers)

\* process_connection_outgoing
process_connection_outgoing(c, write_ready, answers) ==
    LET c1 == IF write_ready THEN [c EXCEPT !.write_ready = TRUE] ELSE c
    IN  IF ~c1.write_ready THEN c1 ELSE write_loop(c1, answers)

(***************************************************************************)
(* Bounds and input sets.                                                  *)
(***************************************************************************)
MaxFrames == 3
MaxMsgs == 3
MaxReplies == 4
MaxData == 3
MaxOut == 4
MaxSends == 2
MaxTicks == 3
MaxListeners == 2
MaxConns == 4

\* the orders in which start is taken to visit the policy table
RECURSIVE Ascending(_)
Ascending(S) ==
    IF S = {} THEN <<>>
    ELSE LET m == CHOOSE x \in S : \A y \in S : x <= y
         IN  <<m>> \o Ascending(S \ {m})
RECURSIVE Descending(_)
Descending(S) ==
    IF S = {} THEN <<>>
    ELSE LET m == CHOOSE x \in S : \A y \in S : x >= y
         IN  <<m>> \o Descending(S \ {m})
StartOrders(options) == {Ascending(DOMAIN options), Descending(DOMAIN options)}

NoHist == [msg |-> Data(<<>>), pre |-> ProtocolComponent_telnet(TelnetOptionsDefault),
           seen |-> FALSE, prev |-> Data(<<>>), prev_seen |-> FALSE]
NoPeers == <<>>
\* the engine-side state of a connection that has just been built:
\* ConnectionComponent::new, ProtocolComponent::telnet
NoEngine ==
    [out_buffer |-> <<>>,       \* ProtocolComponent.out_buffer
     protocol |-> "Telnet",     \* the listener's protocol
     stage |-> "listen",        \* the system the schedules run next
     in_world |-> FALSE,        \* the connection is in the world and registered
     status |-> "Active",       \* ConnectionComponent.status
     pstatus |-> "Negotiating", \* ProtocolComponent.pstatus
     write_ready |-> FALSE,     \* ConnectionComponent.write_ready
     poll_read |-> FALSE,       \* ConnPoll.read_ready holds the token
     poll_write |-> FALSE,      \* ConnPoll.write_ready holds the token
     peer_closed |-> FALSE,     \* the peer has closed its end
     age |-> 0,                 \* health checks since the connection was made
     before |-> <<>>,           \* read_buff when the last I/O stage began
     returned |-> <<>>,         \* bytes the transport's reads have returned
     sent |-> <<>>,             \* bytes the transport's writes have accepted
     enqueued |-> <<>>,         \* bytes the FSM has put into write_buff
     io |-> <<>>]               \* the transport calls of the last I/O stage
NoWire == <<>>

codecIdle == src = <<>> /\ input = <<>> /\ answer = None
connIdle ==
    /\ accepted = FALSE
    /\ prot = ProtocolComponent_telnet(TelnetOptionsDefault)
    /\ read_buff = <<>>
    /\ new_data = FALSE
    /\ pending = <<>>
    /\ nsent = 0
    /\ hist = NoHist
    /\ trace = <<>>
pairIdle == peers = NoPeers /\ wire = NoWire
engIdle == eng = NoEngine

(***************************************************************************)
(* SpecCodec: the codec alone, applied again and again to a buffer the way *)
(* the loop of process_new_data applies it.                                *)
(***************************************************************************)
CodecBytes == {IAC, WILL, SB, SE, NAWS, 65}
Buffers == UNION {[1..n -> CodecBytes] : n \in 0..MaxLen}
NotYet == [kind |-> "NotYet", msg |-> Data(<<>>), len |-> 0]

InitCodec ==
    /\ src \in Buffers
    /\ input = <<>>
    /\ answer = NotYet
    /\ connIdle
    /\ pairIdle
    /\ engIdle

CodecStep ==
    /\ answer.kind \in {"NotYet", "Some"}
    /\ input' = src
    /\ answer' = from_bytes(src)
    /\ src' = IF answer'.kind = "Some" THEN advance(src, answer'.len) ELSE src
    /\ UNCHANGED <<connVars, pairVars, engVars>>

NextCodec == CodecStep

SpecCodec == InitCodec /\ [][NextCodec]_vars

(***************************************************************************)
(* Spec: one Telnet connection through the engine's stages.  The listener  *)
(* accepts it (accept_new_connections), the peer sends frames, the read    *)
(* stage moves the bytes that have arrived into read_buff                  *)
(* (process_connection_read) and the decode stage runs process_new_data    *)
(* (process_connection_newdata).  A panic ends the engine.                 *)
(***************************************************************************)
Frames ==
    { <<IAC, WILL, NAWS>>, <<IAC, WILL, MTTS>>, <<IAC, DO, SGA>>, <<IAC, WONT, NAWS>>,
      <<IAC, DO, MXP>>, <<IAC, DONT, SGA>>,
      <<IAC, SB, NAWS, 0, 80, 0, 24, IAC, SE>>,
      <<IAC, SB, MTTS, 0, 65, IAC, SE>>,
      <<IAC, SB, MTTS, 0, 65, 32, 66, IAC, SE>>,
      <<IAC, SB, IAC, SE>>,
      <<IAC, IAC>>, <<IAC, 241>>, <<IAC>>,
      <<104, 105, 13, LF>>,
      <<65, IAC, IAC, 66, LF>> }

Init ==
    /\ codecIdle
    /\ connIdle
    /\ pairIdle
    /\ engIdle

\* accept_new_connections: ProtocolComponent::telnet, then prot.start(&mut conn)
Accept ==
    /\ ~accepted
    /\ \E keys \in StartOrders(TelnetOptionsDefault) :
          prot' = start(ProtocolComponent_telnet(TelnetOptionsDefault), keys)
    /\ accepted' = TRUE
    /\ UNCHANGED <<read_buff, new_data, pending, nsent, hist, trace, codecVars, pairVars, engVars>>

\* the peer writes one more frame to its socket
PeerSend ==
    /\ accepted /\ ~prot.panicked
    /\ nsent < MaxFrames
    /\ pending = <<>>
    /\ \E f \in Frames :
          /\ pending' = f
          /\ trace' = Append(trace, f)
    /\ nsent' = nsent + 1
    /\ UNCHANGED <<accepted, prot, read_buff, new_data, hist, codecVars, pairVars, engVars>>

\* process_connection_read: the transport returns the k bytes that have
\* arrived, then WouldBlock
Read ==
    /\ accepted /\ ~prot.panicked
    /\ ~new_data
    /\ \E k \in 1..Len(pending) :
          /\ read_buff' = read_buff \o SubSeq(pending, 1, k)
          /\ pending' = advance(pending, k)
    /\ new_data' = TRUE
    /\ UNCHANGED <<accepted, prot, nsent, hist, trace, codecVars, pairVars, engVars>>

\* process_connection_newdata
Decode ==
    /\ accepted /\ ~prot.panicked
    /\ new_data
    /\ LET r == process_new_data(prot, read_buff)
       IN  /\ prot' = r[1]
           /\ read_buff' = r[2]
    /\ new_data' = FALSE
    /\ UNCHANGED <<accepted, pending, nsent, hist, trace, codecVars, pairVars, engVars>>

Next == Accept \/ PeerSend \/ Read \/ Decode

Spec == Init /\ [][Next]_vars

(***************************************************************************)
(* SpecFsm: the Telnet FSM of one started connection, fed one decoded      *)
(* message at a time (TelnetProtocol::process_message).  hist keeps the    *)
(* message, the record before it and the message before that; prot.calls  *)
(* holds the hooks the message ran.                                        *)
(***************************************************************************)
PeerOps == {SGA, NAWS, MTTS, GMCP, MXP}
FsmMessages ==
    { Negotiate(c, o) : c \in {WILL, WONT, DO, DONT}, o \in PeerOps }
    \cup { SubNegotiate(NAWS, <<0, 80, 0, 24>>), SubNegotiate(NAWS, <<1, 2, 3, 4, 5>>),
           SubNegotiate(NAWS, <<0, 80, 0>>), SubNegotiate(MTTS, <<0, 65>>),
           Data(<<104, 105, 13, LF>>) }

InitFsm ==
    /\ codecIdle
    /\ pairIdle
    /\ engIdle
    /\ accepted = TRUE
    /\ \E keys \in StartOrders(TelnetOptionsDefault) :
          prot = start(ProtocolComponent_telnet(TelnetOptionsDefault), keys)
    /\ read_buff = <<>>
    /\ new_data = FALSE
    /\ pending = <<>>
    /\ nsent = 0
    /\ hist = NoHist
    /\ trace = <<>>

ReceiveMessage ==
    /\ nsent < MaxMsgs
    /\ ~prot.panicked
    /\ \E m \in FsmMessages :
          /\ hist' = [msg |-> m, pre |-> prot, seen |-> TRUE,
                       prev |-> hist.msg, prev_seen |-> hist.seen]
          /\ prot' = process_message([prot EXCEPT !.calls = <<>>], m)
          /\ trace' = Append(trace, m)
    /\ nsent' = nsent + 1
    /\ UNCHANGED <<accepted, read_buff, new_data, pending, codecVars, pairVars, engVars>>

NextFsm == ReceiveMessage

SpecFsm == InitFsm /\ [][NextFsm]_vars

(***************************************************************************)
(* SpecMtts: the MTTS handshake of one started connection.  The peer       *)
(* agrees to or refuses MTTS and answers the server's SEND requests with   *)
(* terminal-type replies, well-formed or not; trace keeps every message.   *)
(***************************************************************************)
STR_MUDLET == <<77, 85, 68, 76, 69, 84>>
MttsTexts ==
    { STR_MUDLET,
      <<109, 117, 100, 108, 101, 116>>,     \* mudlet
      STR_XTERM,
      <<65>>,                               \* A
      <<65, SPACE, 66>>,                    \* A B
      STR_MTTS_ \o <<49, 51>>,              \* MTTS 13
      STR_MTTS_ \o <<120>> }                \* MTTS x
MttsMessages ==
    { Negotiate(WILL, MTTS), Negotiate(WONT, MTTS),
      SubNegotiate(MTTS, <<0>>), SubNegotiate(MTTS, <<1, 65>>) }
    \cup { SubNegotiate(MTTS, <<0>> \o t) : t \in MttsTexts }

ReceiveReply ==
    /\ nsent < MaxReplies
    /\ ~prot.panicked
    /\ \E m \in MttsMessages :
          /\ hist' = [msg |-> m, pre |-> prot, seen |-> TRUE,
                       prev |-> hist.msg, prev_seen |-> hist.seen]
          /\ prot' = process_message([prot EXCEPT !.calls = <<>>], m)
          /\ trace' = Append(trace, m)
    /\ nsent' = nsent + 1
    /\ UNCHANGED <<accepted, read_buff, new_data, pending, codecVars, pairVars, engVars>>

NextMtts == ReceiveReply

SpecMtts == InitFsm /\ [][NextMtts]_vars

(***************************************************************************)
(* SpecOptions: the options that have a capability or a handler.  The peer *)
(* negotiates SGA, NAWS and LINEMODE in every way, agrees to MTTS, asks    *)
(* the server for MTTS and GMCP, and sends sub-negotiations: for NAWS, of  *)
(* full and short length; for MTTS, too short or with a wrong first byte;  *)
(* for GMCP, which has no handler; for MXP, which is not in the table.     *)
(***************************************************************************)
OptionMessages ==
    { Negotiate(c, o) : c \in {WILL, WONT, DO, DONT}, o \in {SGA, NAWS, LINEMODE} }
    \cup { Negotiate(WILL, MTTS), Negotiate(DO, MTTS), Negotiate(DO, GMCP),
           SubNegotiate(NAWS, <<0, 80, 0, 24>>), SubNegotiate(NAWS, <<0, 80, 0>>),
           SubNegotiate(MTTS, <<0>>), SubNegotiate(MTTS, <<1, 65>>),
           SubNegotiate(GMCP, <<65>>), SubNegotiate(MXP, <<1>>) }

ReceiveOption ==
    /\ nsent < MaxMsgs
    /\ ~prot.panicked
    /\ \E m \in OptionMessages :
          /\ hist' = [msg |-> m, pre |-> prot, seen |-> TRUE,
                       prev |-> hist.msg, prev_seen |-> hist.seen]
          /\ prot' = process_message([prot EXCEPT !.calls = <<>>], m)
          /\ trace' = Append(trace, m)
    /\ nsent' = nsent + 1
    /\ UNCHANGED <<accepted, read_buff, new_data, pending, codecVars, pairVars, engVars>>

NextOptions == ReceiveOption

SpecOptions == InitFsm /\ [][NextOptions]_vars

(***************************************************************************)
(* SpecLines: the application data of one started connection, arriving as  *)
(* Data messages that cut the stream anywhere: inside a line, inside a     *)
(* multi-byte character, between CR and LF.                                *)
(***************************************************************************)
\* LF, CR, h and the first byte of a two-byte character
LineBytes == {LF, 13, 104, 195}
DataMessages ==
    { Data(<<a>>) : a \in LineBytes }
    \cup { Data(<<a, b>>) : a \in LineBytes, b \in LineBytes }
    \cup { Data(<<195, 169>>), Data(<<IAC>>),
           Data(<<104, 105, 13, LF>>), Data(<<104, 101, 108, 108, 111, 13, LF>>) }

ReceiveData ==
    /\ nsent < MaxData
    /\ ~prot.panicked
    /\ \E m \in DataMessages :
          /\ hist' = [msg |-> m, pre |-> prot, seen |-> TRUE,
                       prev |-> hist.msg, prev_seen |-> hist.seen]
          /\ prot' = process_message([prot EXCEPT !.calls = <<>>], m)
          /\ trace' = Append(trace, m)
    /\ nsent' = nsent + 1
    /\ UNCHANGED <<accepted, read_buff, new_data, pending, codecVars, pairVars, engVars>>

NextLines == ReceiveData

SpecLines == InitFsm /\ [][NextLines]_vars

(***************************************************************************)
(* SpecOut: the out-events of one started connection.  The layer above     *)
(* pushes out-events onto out_buffer (login_cmds.rs) and send_out_events   *)
(* drains the queue into the outbound buffer; trace keeps every out-event  *)
(* pushed and prot.calls every text handed to send_text.                   *)
(***************************************************************************)
OutEvents ==
    { OutLine(<<104>>), OutLine(<<104, 105>>), OutPrompt(<<62>>), OutOOB, OutMSSP }

EnqueueOut ==
    /\ Len(trace) < MaxOut
    /\ \E ev \in OutEvents :
          /\ eng' = [eng EXCEPT !.out_buffer = Append(@, ev)]
          /\ trace' = Append(trace, ev)
    /\ UNCHANGED <<accepted, prot, read_buff, new_data, pending, nsent, hist,
                   codecVars, pairVars>>

SendOutEvents ==
    /\ eng.out_buffer # <<>>
    /\ prot' = send_out_events(prot, eng.out_buffer)
    /\ eng' = [eng EXCEPT !.out_buffer = <<>>]
    /\ UNCHANGED <<accepted, read_buff, new_data, pending, nsent, hist, trace,
                   codecVars, pairVars>>

NextOut == EnqueueOut \/ SendOutEvents

SpecOut == InitFsm /\ [][NextOut]_vars

(***************************************************************************)
(* SpecEngine: one connection through the ticks of Engine::run.  A tick    *)
(* runs the listen schedule (poll_listeners, accept_new_connections) and   *)
(* the socket schedule (poll_connections, process_connection_read,         *)
(* process_connection_newdata, process_connection_outgoing,                *)
(* connection_health_check).  The peer, the poller and the transport are   *)
(* the environment: the peer sends frames and may close, the poller        *)
(* reports any readiness, a read returns bytes that have arrived, then     *)
(* WouldBlock, end of file or an error, a write accepts part of what it is *)
(* handed, or answers WouldBlock or an error.  A panic ends the engine.    *)
(***************************************************************************)
EngineFrames == { <<IAC, WILL, MTTS>>, <<IAC>> }

\* the stage record of the connection, and the variables after a stage
Conn ==
    [status |-> eng.status, write_ready |-> eng.write_ready,
     read_buff |-> read_buff, new_data |-> new_data, write_buff |-> prot.write_buff,
     returned |-> eng.returned, sent |-> eng.sent, io |-> <<>>]
Staged(c, next) ==
    /\ read_buff' = c.read_buff
    /\ new_data' = c.new_data
    /\ prot' = [prot EXCEPT !.write_buff = c.write_buff]
    /\ eng' = [eng EXCEPT !.status = c.status, !.write_ready = c.write_ready,
                          !.returned = c.returned, !.sent = c.sent, !.io = c.io,
                          !.before = read_buff, !.stage = next]

\* what the transport may answer to the reads of one pass: nothing, the
\* first byte or all of the bytes that have arrived, in one read or in two
\* (the first byte, then the rest), then WouldBlock, an error or, when the
\* peer has closed and everything has been read, end of file
Splits(b) ==
    IF b = <<>> THEN {<<>>}
    ELSE {<<Ok(b)>>} \cup (IF Len(b) > 1 THEN {<<Ok(<<Head(b)>>), Ok(Tail(b))>>} ELSE {})
ReadAnswers ==
    { sp \o <<t>> :
        sp \in UNION { Splits(SubSeq(pending, 1, n)) :
                           n \in {k \in 0..Len(pending) : k <= 1 \/ k = Len(pending)} },
        t \in {WouldBlock, OtherError} }
    \cup (IF eng.peer_closed THEN { sp \o <<Ok(<<>>)>> : sp \in Splits(pending) } ELSE {})
\* what the transport may answer to the writes of one pass on n bytes: it
\* accepts one byte or all of them, once or twice, or refuses
WriteLens(n) == {k \in 1..n : k = 1 \/ k = n}
WriteAnswers(n) ==
    { <<t>> : t \in {WouldBlock, OtherError} }
    \cup { <<Wrote(k), t>> : k \in WriteLens(n), t \in {WouldBlock, OtherError} }
    \cup { <<Wrote(k), Wrote(n - k)>> : k \in {j \in WriteLens(n) : j < n} }

InitEngine ==
    /\ codecIdle
    /\ connIdle
    /\ pairIdle
    /\ \E protocol \in Protocols : eng = [NoEngine EXCEPT !.protocol = protocol]

Running == accepted /\ ~prot.panicked

\* poll_listeners, accept_new_connections: the listener is ready and accept
\* returns the connection, then WouldBlock
ListenAccept ==
    /\ ~accepted
    /\ eng.stage = "listen"
    /\ prot' = ProtocolComponent_start(eng.protocol,
                   new_protocol(eng.protocol, TelnetOptionsDefault),
                   Ascending(DOMAIN TelnetOptionsDefault))
    /\ accepted' = TRUE
    /\ eng' = [eng EXCEPT !.in_world = TRUE, !.enqueued = prot'.write_buff,
                          !.stage = "poll"]
    /\ UNCHANGED <<read_buff, new_data, pending, nsent, hist, trace, codecVars, pairVars>>

\* poll_listeners, accept_new_connections: no listener is ready
ListenIdle ==
    /\ Running
    /\ eng.stage = "listen"
    /\ eng.age < MaxTicks
    /\ eng' = [eng EXCEPT !.stage = "poll"]
    /\ UNCHANGED <<accepted, prot, read_buff, new_data, pending, nsent, hist, trace,
                   codecVars, pairVars>>

\* the peer writes one more frame to its socket
EnginePeerSend ==
    /\ Running
    /\ eng.stage = "poll" /\ ~eng.peer_closed
    /\ nsent < MaxSends
    /\ \E f \in EngineFrames : pending' = pending \o f
    /\ nsent' = nsent + 1
    /\ UNCHANGED <<accepted, prot, read_buff, new_data, hist, trace, eng, codecVars, pairVars>>

\* the peer closes its end
EnginePeerClose ==
    /\ Running
    /\ eng.stage = "poll" /\ ~eng.peer_closed
    /\ eng' = [eng EXCEPT !.peer_closed = TRUE]
    /\ UNCHANGED <<accepted, prot, read_buff, new_data, pending, nsent, hist, trace,
                   codecVars, pairVars>>

\* poll_connections: ConnPoll::poll
PollConnections ==
    /\ Running
    /\ eng.stage = "poll"
    /\ \E r \in BOOLEAN, w \in BOOLEAN :
          eng' = [eng EXCEPT !.poll_read = r, !.poll_write = w, !.stage = "read"]
    /\ UNCHANGED <<accepted, prot, read_buff, new_data, pending, nsent, hist, trace,
                   codecVars, pairVars>>

\* process_connection_read
ReadStage ==
    /\ Running
    /\ eng.stage = "read"
    /\ \E answers \in ReadAnswers :
          LET c == process_connection_read(Conn, eng.poll_read, answers)
          IN  /\ Staged(c, "newdata")
              /\ pending' = advance(pending, Len(c.returned) - Len(eng.returned))
    /\ UNCHANGED <<accepted, nsent, hist, trace, codecVars, pairVars>>

\* process_connection_newdata
NewDataStage ==
    /\ Running
    /\ eng.stage = "newdata"
    /\ LET r == process_connection_newdata(eng.protocol, prot, read_buff, new_data)
       IN  /\ prot' = r.p
           /\ read_buff' = r.read_buff
           /\ new_data' = r.new_data
           /\ eng' = [eng EXCEPT !.enqueued = @ \o advance(r.p.write_buff, Len(prot.write_buff)),
                                 !.stage = IF r.p.panicked THEN "panicked" ELSE "outgoing"]
    /\ UNCHANGED <<accepted, pending, nsent, hist, trace, codecVars, pairVars>>

\* process_connection_outgoing
OutgoingStage ==
    /\ Running
    /\ eng.stage = "outgoing"
    /\ \E answers \in WriteAnswers(Len(prot.write_buff)) :
          Staged(process_connection_outgoing(Conn, eng.poll_write, answers), "health")
    /\ UNCHANGED <<accepted, pending, nsent, hist, trace, codecVars, pairVars>>

\* connection_health_check, and the end of the tick
HealthStage ==
    /\ Running
    /\ eng.stage = "health"
    /\ eng' = [health_check([eng EXCEPT !.age = @ + 1], prot) EXCEPT !.stage = "listen"]
    /\ UNCHANGED <<accepted, prot, read_buff, new_data, pending, nsent, hist, trace,
                   codecVars, pairVars>>

NextEngine ==
    \/ ListenAccept \/ ListenIdle
    \/ EnginePeerSend \/ EnginePeerClose \/ PollConnections
    \/ ReadStage \/ NewDataStage \/ OutgoingStage \/ HealthStage

SpecEngine == InitEngine /\ [][NextEngine]_vars

\* the driver thread of Engine::run never stops of its own accord: a step
\* that can be taken is taken
FairEngine == SpecEngine /\ WF_vars(NextEngine)

(***************************************************************************)
(* SpecSetup: Engine::setup on a configuration.  The configuration is      *)
(* what Config::from_file has read: a net section or none, in it a         *)
(* listeners section or none, in it one optional address per kind of       *)
(* listener; binding an address succeeds or fails.  The engine record is   *)
(* the configuration, the listeners registered so far and how setup ended. *)
(***************************************************************************)
ListenerKinds == {"plain_telnet", "tls_telnet", "plain_websocket", "tls_websocket", "ssh"}
Addresses == {"None", "bindable", "unbindable"}
Configs ==
    [net : {FALSE}, listeners : {FALSE}, l : {[k \in ListenerKinds |-> "None"]}]
    \cup [net : {TRUE}, listeners : {FALSE}, l : {[k \in ListenerKinds |-> "None"]}]
    \cup [net : {TRUE}, listeners : {TRUE}, l : [ListenerKinds -> Addresses]]

\* Engine::new
Engine_new(conf) ==
    [config |-> conf, listeners |-> {}, outcome |-> "new", message |-> ""]

\* Engine::register_listener: Err when the address cannot be bound
register_listener(e, addr, protocol, ctype) ==
    IF addr = "bindable"
    THEN [ok |-> TRUE, e |-> [e EXCEPT !.listeners = @ \cup {<<protocol, ctype>>}]]
    ELSE [ok |-> FALSE, e |-> e]

panic(e, message) == [e EXCEPT !.outcome = "panic", !.message = message]

\* Engine::setup
setup(e) ==
    IF e.config.net
    THEN IF e.config.listeners
         THEN LET plain_telnet == e.config.l["plain_telnet"]
                  r == register_listener(e, plain_telnet, "Telnet", "Plain")
              IN  IF plain_telnet # "None" /\ ~r.ok
                  THEN panic(e, "Could not open a listening port for plain telnet!")
                  ELSE LET success == IF plain_telnet # "None" THEN 1 ELSE 0
                       IN  IF success = 0
                           THEN panic(e, "Program has no listeners!")
                           ELSE [r.e EXCEPT !.outcome = "ready"]
         ELSE panic(e, "Program needs listeners to have meaning!")
    ELSE panic(e, "Program requires Net configuration to be useful!")

InitSetup ==
    /\ codecIdle
    /\ connIdle
    /\ pairIdle
    /\ \E conf \in Configs : eng = Engine_new(conf)

\* main: eng.setup()
Setup ==
    /\ eng.outcome = "new"
    /\ eng' = setup(eng)
    /\ UNCHANGED <<connVars, codecVars, pairVars>>

NextSetup == Setup

SpecSetup == InitSetup /\ [][NextSetup]_vars

(***************************************************************************)
(* SpecTokens: the two token sequences.  The engine record holds the next  *)
(* counters of ListenPoll and ConnPoll, the tokens of the listeners        *)
(* registered so far and, per connection pushed into the world so far, its *)
(* token and protocol, in the order they were made.                        *)
(***************************************************************************)
\* ConnPoll::get_next that hands out the counter without advancing it
ConnPoll_get_next_stale(next) == [next |-> next, token |-> next + 1]

\* ConnPoll::get_next
ConnPoll_get_next(next) == [next |-> next + 1, token |-> next + 1]

\* ListenPoll::get_next
ListenPoll_get_next(next) == [next |-> next + 1, token |-> next + 1]

\* ListenPoll::new, ConnPoll::new
InitTokens ==
    /\ codecIdle
    /\ connIdle
    /\ pairIdle
    /\ eng = [listen_next |-> 0, conn_next |-> 0, listeners |-> <<>>, conns |-> <<>>]

\* Engine::register_listener: let tok = poller.get_next()
RegisterListener ==
    /\ Len(eng.listeners) < MaxListeners
    /\ \E protocol \in Protocols :
          LET r == ListenPoll_get_next(eng.listen_next)
          IN  eng' = [eng EXCEPT !.listen_next = r.next,
                                 !.listeners = Append(@, [token |-> r.token,
                                                          protocol |-> protocol])]
    /\ UNCHANGED <<connVars, codecVars, pairVars>>

\* accept_new_connections: let tok = con_poll.get_next(), for a connection
\* accepted on any of the listeners
AcceptConnection ==
    /\ Len(eng.conns) < MaxConns
    /\ \E k \in DOMAIN eng.listeners :
          LET r == ConnPoll_get_next(eng.conn_next)
          IN  eng' = [eng EXCEPT !.conn_next = r.next,
                                 !.conns = Append(@, [token |-> r.token,
                                                      protocol |-> eng.listeners[k].protocol])]
    /\ UNCHANGED <<connVars, codecVars, pairVars>>

NextTokens == RegisterListener \/ AcceptConnection

SpecTokens == InitTokens /\ [][NextTokens]_vars

(***************************************************************************)
(* SpecStages: two connections through the parallel stages of one tick     *)
(* (process_connection_newdata, process_connection_outgoing,               *)
(* connection_health_check are par_for_each systems).  peers is the world: *)
(* per connection its token, its ConnectionComponent c, its                *)
(* ProtocolComponent p and the engine-side record e.  Within a stage the   *)
(* per-connection steps run in any order.  The engine record holds the     *)
(* stage, the connections whose step has run, the world when the stage     *)
(* began and the stage's inputs: the tokens ConnPoll reports writable and  *)
(* what each connection's transport answers.                               *)
(***************************************************************************)
StageConns == {1, 2}
StageBuffers == { <<>>, <<IAC, WILL, MTTS>>, <<104, 105, 13, LF>>, <<IAC>> }

\* the record of a connection that accept_new_connections has just pushed
\* and the read stage has filled with the bytes rb
NewConnection(token, protocol, rb) ==
    LET p == ProtocolComponent_start(protocol, new_protocol(protocol, TelnetOptionsDefault),
                                     Ascending(DOMAIN TelnetOptionsDefault))
    IN  [token |-> token,
         c |-> [status |-> "Active", write_ready |-> FALSE, read_buff |-> rb,
                new_data |-> rb # <<>>, write_buff |-> p.write_buff,
                returned |-> rb, sent |-> <<>>, io |-> <<>>],
         p |-> p,
         e |-> [protocol |-> protocol, pstatus |-> "Negotiating", age |-> 0,
                out_buffer |-> <<>>]]

\* process_connection_newdata on one connection
stage_newdata(r) ==
    LET x == process_connection_newdata(r.e.protocol, r.p, r.c.read_buff, r.c.new_data)
    IN  [r EXCEPT !.p = x.p, !.c.read_buff = x.read_buff, !.c.new_data = x.new_data,
                  !.c.write_buff = x.p.write_buff]

\* process_connection_outgoing on one connection
stage_outgoing(r, write_ready, answers) ==
    LET c == process_connection_outgoing(r.c, r.token \in write_ready, answers)
    IN  [r EXCEPT !.c = c, !.p.write_buff = c.write_buff]

\* connection_health_check on one connection
stage_health(r) == [r EXCEPT !.e = health_check([r.e EXCEPT !.age = @ + 1], r.p)]

\* what a stage makes of the record of connection i
staged(stage, r, res, i) ==
    CASE stage = "newdata" -> stage_newdata(r)
      [] stage = "outgoing" -> stage_outgoing(r, res.write_ready, res.answers[i])
      [] stage = "health" -> stage_health(r)

\* a step that also leaves its write_ready flag on every other connection
run_step_shared(world, stage, res, i) ==
    LET r == staged(stage, world[i], res, i)
    IN  [j \in DOMAIN world |->
            IF j = i THEN r ELSE [world[j] EXCEPT !.c.write_ready = r.c.write_ready]]

\* the step of a par_for_each system for connection i: the closure is given
\* the components of that entity alone
run_step(world, stage, res, i) ==
    [world EXCEPT ![i] = staged(stage, world[i], res, i)]

Stages == <<"newdata", "outgoing", "health", "end">>
StageAfter(stage) == Stages[1 + CHOOSE k \in 1..3 : Stages[k] = stage]

\* the inputs of the stages that follow the decode stage: poll_connections
\* has filled ConnPoll.write_ready; each transport has its answers
NoInputs == [write_ready |-> {}, answers |-> <<<<>>, <<>>>>]
StageAnswers(n) ==
    IF n = 0 THEN {<<>>}
    ELSE {<<WouldBlock>>, <<Wrote(1), OtherError>>, <<Wrote(n)>>}
StageInputs(stage, world) ==
    IF stage # "outgoing" THEN {NoInputs}
    ELSE { [write_ready |-> w, answers |-> <<a1, a2>>] :
             w \in SUBSET {world[1].token, world[2].token},
             a1 \in StageAnswers(Len(world[1].p.write_buff)),
             a2 \in StageAnswers(Len(world[2].p.write_buff)) }

InitStages ==
    /\ codecIdle
    /\ connIdle
    /\ wire = NoWire
    /\ \E pr1 \in {"Telnet", "WebSocket"}, pr2 \in {"Telnet", "SSH"},
          rb1 \in StageBuffers, rb2 \in StageBuffers :
          peers = <<NewConnection(1, pr1, rb1), NewConnection(2, pr2, rb2)>>
    /\ eng = [stage |-> "newdata", done |-> {}, before |-> peers, res |-> NoInputs]

\* one worker runs the stage's system on connection i
StageStep ==
    /\ eng.stage # "end"
    /\ \E i \in StageConns \ eng.done :
          /\ peers' = run_step(peers, eng.stage, eng.res, i)
          /\ eng' = [eng EXCEPT !.done = @ \cup {i}]
    /\ UNCHANGED <<connVars, codecVars, wire>>

\* the schedule moves on when the system has run on every connection; a
\* panic of the decode stage ends the engine
StageDone ==
    /\ eng.stage # "end"
    /\ eng.done = StageConns
    /\ \A i \in StageConns : ~peers[i].p.panicked
    /\ \E res \in StageInputs(StageAfter(eng.stage), peers) :
          eng' = [eng EXCEPT !.stage = StageAfter(@), !.done = {}, !.before = peers,
                             !.res = res]
    /\ UNCHANGED <<connVars, codecVars, pairVars>>

NextStages == StageStep \/ StageDone

SpecStages == InitStages /\ [][NextStages]_vars

(***************************************************************************)
(* SpecPair: two instances of the Telnet FSM connected to each other.      *)
(* Each side has its own policy table and has run start; what a side       *)
(* writes is flushed onto the wire to the other side                       *)
(* (process_connection_outgoing), which decodes it one message at a time.  *)
(* The engine loop never stops, so a byte in flight is eventually          *)
(* delivered.                                                              *)
(***************************************************************************)
Sides == {"A", "B"}
Other(s) == IF s = "A" THEN "B" ELSE "A"
PairOps == {SGA, MTTS}
PairFlags ==
    { TelnetOption(TRUE, TRUE, sr, sl) : sr \in BOOLEAN, sl \in BOOLEAN }
    \cup { TelnetOption(FALSE, TRUE, TRUE, FALSE) }
PairTables == UNION { [D -> PairFlags] : D \in SUBSET PairOps }

InitPair ==
    /\ codecIdle
    /\ connIdle
    /\ engIdle
    /\ \E ta \in PairTables, tb \in PairTables :
          LET a == start(ProtocolComponent_telnet(ta), Ascending(DOMAIN ta))
              b == start(ProtocolComponent_telnet(tb), Descending(DOMAIN tb))
          IN  /\ peers = [s \in Sides |-> [(IF s = "A" THEN a ELSE b) EXCEPT !.write_buff = <<>>]]
              /\ wire = [s \in Sides |-> IF s = "A" THEN b.write_buff ELSE a.write_buff]

\* side s reads and decodes the next message in flight to it, and what it
\* writes in answer is flushed to the other side
Deliver(s) ==
    /\ ~peers[s].panicked
    /\ LET r == from_bytes(wire[s])
       IN  /\ r.kind = "Some"
           /\ LET q == process_message([peers[s] EXCEPT !.calls = <<>>], r.msg)
              IN  /\ peers' = [peers EXCEPT ![s] = [q EXCEPT !.write_buff = <<>>]]
                  /\ wire' = [wire EXCEPT ![s] = advance(@, r.len),
                                          ![Other(s)] = @ \o q.write_buff]
    /\ UNCHANGED <<codecVars, connVars, engVars>>

NextPair == \E s \in Sides : Deliver(s)

SpecPair == InitPair /\ [][NextPair]_vars /\ WF_vars(NextPair)

(***************************************************************************)
(* Properties of the codec (SpecCodec).                                    *)
(***************************************************************************)
IsPrefix(a, b) == Len(a) <= Len(b) /\ SubSeq(b, 1, Len(a)) = a

\* C2: whenever from_bytes returns (m, n), to_vec(m) is a prefix of the first
\* n bytes of the buffer, and is those n bytes unless the buffer starts with
\* the escape IAC IAC, which decodes to Data([IAC]) with n = 2.
C2_RoundTrip ==
    answer.kind = "Some" =>
        LET consumed == SubSeq(input, 1, answer.len)
            escape == Len(input) >= 2 /\ input[1] = IAC /\ input[2] = IAC
        IN  /\ answer.len <= Len(input)
            /\ IsPrefix(to_vec(answer.msg), consumed)
            /\ ~escape => to_vec(answer.msg) = consumed
            /\ escape => answer.msg = Data(<<IAC>>) /\ answer.len = 2

C2_Witness ==
    /\ answer.kind = "Some"
    /\ answer.msg.type = "Negotiate"
    /\ Len(src) > 0

\* the incomplete frames C3 lists
Incomplete(b) ==
    \/ b = <<>>
    \/ b = <<IAC>>
    \/ Len(b) = 2 /\ b[1] = IAC /\ b[2] \in {WILL, WONT, DO, DONT}
    \/ Len(b) >= 2 /\ b[1] = IAC /\ b[2] = SB /\ windows_position(b) < 0

\* C3: on an incomplete frame (an empty buffer, a lone IAC, IAC and a
\* negotiation command with no option byte, IAC SB with no IAC SE) from_bytes
\* returns None and the buffer is left as it was.
C3_IncompleteIsNone ==
    (answer.kind # "NotYet" /\ Incomplete(input)) => (answer.kind = "None" /\ src = input)

(***************************************************************************)
(* Properties of the decode stage and of accept (Spec).                    *)
(***************************************************************************)
\* C1: whatever bytes the peer sends and however the reads split them, the
\* decode stage never panics.
C1_NeverPanics == ~prot.panicked

\* the three-byte groups of a buffer
Triples(b) == [k \in 1..(Len(b) \div 3) |-> SubSeq(b, 3 * k - 2, 3 * k)]
StartRequests(options) ==
    { <<IAC, WILL, k>> : k \in {o \in DOMAIN options : options[o].start_local} }
    \cup { <<IAC, DO, k>> : k \in {o \in DOMAIN options : options[o].start_remote} }

\* C10: once the connection is accepted and before any inbound byte is read,
\* write_buff holds exactly one IAC WILL op for every start_local option, one
\* IAC DO op for every start_remote option, and nothing else.
C10_StartBytes ==
    (accepted /\ nsent = 0) =>
        LET b == prot.write_buff
            t == Triples(b)
            want == StartRequests(prot.telnet_options)
        IN  /\ Len(b) = 3 * Cardinality(want)
            /\ \A r \in want : Cardinality({k \in DOMAIN t : t[k] = r}) = 1
            /\ \A k \in DOMAIN t : t[k] \in want

C10_Witness ==
    /\ accepted /\ nsent = 0 /\ read_buff = <<>>
    /\ Len(prot.write_buff) > 0

(***************************************************************************)
(* Properties of receive_negotiate (SpecFsm).                              *)
(***************************************************************************)
Suffix(b, a) == SubSeq(b, Len(a) + 1, Len(b))
Sent == Suffix(prot.write_buff, hist.pre.write_buff)
Emitted == Suffix(prot.buffer, hist.pre.buffer)
Appended == IsPrefix(hist.pre.write_buff, prot.write_buff) /\ IsPrefix(hist.pre.buffer, prot.buffer)
NoCalls(p) == [p EXCEPT !.calls = <<>>]
Negotiating(c) == hist.seen /\ hist.msg.type = "Negotiate" /\ hist.msg.code = c
InTable(op) == op \in DOMAIN hist.pre.telnet_options
PreState == hist.pre.op_state[hist.msg.op]
PostState == prot.op_state[hist.msg.op]

\* C4: a Negotiate(cmd, op) for an option outside the policy table changes
\* no option state, capability or handshake set, emits no event, and sends
\* exactly IAC DONT op for WILL, IAC WONT op for DO and nothing otherwise.
C4_UnknownRefused ==
    (hist.seen /\ hist.msg.type = "Negotiate" /\ ~InTable(hist.msg.op)) =>
        /\ prot.op_state = hist.pre.op_state
        /\ prot.capabilities = hist.pre.capabilities
        /\ prot.handshakes_left = hist.pre.handshakes_left
        /\ Appended /\ Emitted = <<>>
        /\ Sent = IF hist.msg.code = WILL THEN <<IAC, DONT, hist.msg.op>>
                  ELSE IF hist.msg.code = DO THEN <<IAC, WONT, hist.msg.op>>
                  ELSE <<>>

C4_Witness ==
    /\ hist.seen /\ hist.msg = Negotiate(WILL, MXP)
    /\ Sent = <<IAC, DONT, MXP>>

\* C5: for a table option, WILL op while remote.enabled is false (DO op while
\* local.enabled is false) leaves that side enabled and not negotiating,
\* emits exactly one RemoteHandshake(op) (LocalHandshake(op)), runs the
\* enable hook once, and replies IAC DO op (IAC WILL op) exactly when
\* negotiating was false before.
C5_Enable ==
    /\ (Negotiating(WILL) /\ InTable(hist.msg.op) /\ ~PreState.remote.enabled) =>
          /\ PostState.remote = [enabled |-> TRUE, negotiating |-> FALSE]
          /\ Appended /\ Emitted = <<RemoteHandshake(hist.msg.op)>>
          /\ prot.calls = << <<"enable_remote", hist.msg.op>> >>
          /\ IsPrefix(<<IAC, DO, hist.msg.op>>, Sent) <=> ~PreState.remote.negotiating
    /\ (Negotiating(DO) /\ InTable(hist.msg.op) /\ ~PreState.local.enabled) =>
          /\ PostState.local = [enabled |-> TRUE, negotiating |-> FALSE]
          /\ Appended /\ Emitted = <<LocalHandshake(hist.msg.op)>>
          /\ prot.calls = << <<"enable_local", hist.msg.op>> >>
          /\ IsPrefix(<<IAC, WILL, hist.msg.op>>, Sent) <=> ~PreState.local.negotiating

C5_Witness ==
    /\ Negotiating(WILL) /\ hist.msg.op = NAWS
    /\ ~PreState.remote.enabled /\ PostState.remote.enabled
    /\ Sent = <<IAC, DO, NAWS>>
    /\ nsent = 3

\* C6: for a table option, WONT op (DONT op) sends nothing, leaves the remote
\* (local) side neither negotiating nor enabled, emits RemoteHandshake(op)
\* (LocalHandshake(op)) exactly when negotiating was true before, and runs
\* the disable hook exactly when enabled was true before.
C6_Disable ==
    /\ (Negotiating(WONT) /\ InTable(hist.msg.op)) =>
          /\ Appended /\ Sent = <<>>
          /\ PostState.remote = [enabled |-> FALSE, negotiating |-> FALSE]
          /\ Emitted = IF PreState.remote.negotiating
                       THEN <<RemoteHandshake(hist.msg.op)>> ELSE <<>>
          /\ prot.calls = IF PreState.remote.enabled
                          THEN << <<"disable_remote", hist.msg.op>> >> ELSE <<>>
    /\ (Negotiating(DONT) /\ InTable(hist.msg.op)) =>
          /\ Appended /\ Sent = <<>>
          /\ PostState.local = [enabled |-> FALSE, negotiating |-> FALSE]
          /\ Emitted = IF PreState.local.negotiating
                       THEN <<LocalHandshake(hist.msg.op)>> ELSE <<>>
          /\ prot.calls = IF PreState.local.enabled
                          THEN << <<"disable_local", hist.msg.op>> >> ELSE <<>>

C6_Witness ==
    /\ Negotiating(WONT) /\ hist.msg.op = NAWS
    /\ PreState.remote.enabled /\ ~PostState.remote.enabled
    /\ prot.calls = << <<"disable_remote", NAWS>> >>

Repeated == hist.seen /\ hist.prev_seen /\ hist.msg.type = "Negotiate" /\ hist.msg = hist.prev
NothingHappened == NoCalls(prot) = NoCalls(hist.pre) /\ prot.calls = <<>>

\* C7 as claimed: for every option and command, the same Negotiate processed
\* a second time right after the first changes no state, emits no event and
\* sends no bytes.
C7_RepeatIsSilent == Repeated => NothingHappened

\* C7 as amended: that holds for every option in the policy table; for an
\* option outside it the repeated message changes nothing and emits nothing
\* except that a WILL or DO is refused again with the same reply.
C7_RepeatFixedPoint ==
    Repeated =>
        IF InTable(hist.msg.op) THEN NothingHappened
        ELSE /\ NoCalls([prot EXCEPT !.write_buff = <<>>])
                    = NoCalls([hist.pre EXCEPT !.write_buff = <<>>])
             /\ prot.calls = <<>>
             /\ Appended
             /\ Sent = IF hist.msg.code = WILL THEN <<IAC, DONT, hist.msg.op>>
                       ELSE IF hist.msg.code = DO THEN <<IAC, WONT, hist.msg.op>>
                       ELSE <<>>

C7_Witness ==
    /\ Repeated /\ hist.msg = Negotiate(WILL, MTTS)
    /\ PreState.remote.enabled
    /\ NothingHappened

\* how many three-byte commands IAC c op, c in cmds, the bytes b hold
CountCommands(b, cmds, op) ==
    Cardinality({i \in 1..(Len(b) - 2) : b[i] = IAC /\ b[i+1] \in cmds /\ b[i+2] = op})

\* C8: in answer to one Negotiate message about op the server sends at most
\* two DO/DONT and at most two WILL/WONT commands about op.
C8_AtMostTwo ==
    (hist.seen /\ hist.msg.type = "Negotiate") =>
        /\ Appended
        /\ CountCommands(Sent, {DO, DONT}, hist.msg.op) <= 2
        /\ CountCommands(Sent, {WILL, WONT}, hist.msg.op) <= 2

C8_Witness ==
    /\ hist.seen /\ hist.msg = Negotiate(WILL, MTTS)
    /\ CountCommands(Sent, {DO, DONT}, MTTS) = 1
    /\ Len(Sent) > 3

(***************************************************************************)
(* Properties of two connected FSMs (SpecPair).                            *)
(***************************************************************************)
Quiet == \A s \in Sides : wire[s] = <<>>

\* C9: two connected instances of the FSM, each started, stop exchanging
\* WILL/WONT/DO/DONT after finitely many messages, for every policy table:
\* eventually nothing is in flight, and nothing is ever again.
C9_Quiesces == <>[]Quiet

C9_Witness ==
    /\ Quiet
    /\ SGA \in DOMAIN peers["A"].op_state /\ SGA \in DOMAIN peers["B"].op_state
    /\ peers["A"].op_state[SGA].local.enabled
    /\ peers["B"].op_state[SGA].remote.enabled

(***************************************************************************)
(* Properties of start and of the default policy table (Spec).             *)
(***************************************************************************)
JustStarted == accepted /\ trace = <<>>
StartLocal == {op \in DOMAIN prot.telnet_options : prot.telnet_options[op].start_local}
StartRemote == {op \in DOMAIN prot.telnet_options : prot.telnet_options[op].start_remote}

\* C11: immediately after start, local.negotiating is true for every
\* start_local option and remote.negotiating is true for every start_remote
\* option (the server has sent a request the peer has not answered).
C11_NegotiatingAfterStart ==
    JustStarted =>
        /\ \A op \in StartLocal : prot.op_state[op].local.negotiating
        /\ \A op \in StartRemote : prot.op_state[op].remote.negotiating

\* C12 as stated: with the default policy table, start emits exactly 7
\* negotiation triples.
C12_SevenTriples ==
    JustStarted => Len(prot.write_buff) = 3 * 7

\* C12: with the default policy table, start emits exactly 8 negotiation
\* triples, each of them IAC WILL op or IAC DO op for an option of the table.
C12_EightTriples ==
    JustStarted =>
        LET t == Triples(prot.write_buff)
        IN  /\ Len(prot.write_buff) = 3 * 8
            /\ \A k \in DOMAIN t :
                  /\ t[k][1] = IAC
                  /\ t[k][2] \in {WILL, DO}
                  /\ t[k][3] \in DOMAIN prot.telnet_options

C12_Witness ==
    /\ JustStarted
    /\ prot.telnet_options = TelnetOptionsDefault
    /\ Len(Triples(prot.write_buff)) > 0

\* the flags of an option in the order (allow_local, allow_remote,
\* start_local, start_remote)
Flags(op) ==
    LET o == prot.telnet_options[op]
    IN  <<o.allow_local, o.allow_remote, o.start_local, o.start_remote>>
Requested(command, op) ==
    \E k \in DOMAIN Triples(prot.write_buff) :
        Triples(prot.write_buff)[k] = <<IAC, command, op>>
ServerSide == {SGA, MSSP, GMCP, MSDP, TELOPT_EOR}
ClientSide == {NAWS, MTTS, LINEMODE}

\* C13 as stated: SGA, MSSP, GMCP, MSDP and TELOPT_EOR are (T,T,F,T) and are
\* requested with IAC DO; NAWS, MTTS and LINEMODE are (F,T,T,F) and are
\* requested with IAC WILL.
C13_TableAsStated ==
    JustStarted =>
        /\ \A op \in ServerSide :
              Flags(op) = <<TRUE, TRUE, FALSE, TRUE>> /\ Requested(DO, op)
        /\ \A op \in ClientSide :
              Flags(op) = <<FALSE, TRUE, TRUE, FALSE>> /\ Requested(WILL, op)

\* C13: in the order (allow_local, allow_remote, start_local, start_remote),
\* SGA, MSSP, GMCP, MSDP and TELOPT_EOR are (T,T,T,F) and NAWS, MTTS and
\* LINEMODE are (F,T,F,T); at start the server sends IAC WILL for the former
\* five and IAC DO for the latter three, and never the other request.
C13_TableAsBuilt ==
    JustStarted =>
        /\ DOMAIN prot.telnet_options = ServerSide \cup ClientSide
        /\ \A op \in ServerSide :
              /\ Flags(op) = <<TRUE, TRUE, TRUE, FALSE>>
              /\ Requested(WILL, op) /\ ~Requested(DO, op)
        /\ \A op \in ClientSide :
              /\ Flags(op) = <<FALSE, TRUE, FALSE, TRUE>>
              /\ Requested(DO, op) /\ ~Requested(WILL, op)

C13_Witness ==
    /\ JustStarted
    /\ Requested(WILL, SGA)
    /\ Requested(DO, NAWS)

(***************************************************************************)
(* Properties of the sub-negotiation handlers (SpecFsm).                   *)
(***************************************************************************)
SubNegotiating(op) == hist.seen /\ hist.msg.type = "SubNegotiate" /\ hist.msg.op = op
u16(hi, lo) == hi * 256 + lo

\* C14: a NAWS sub-negotiation whose payload has at least 4 bytes sets width
\* to the big-endian u16 of bytes 0-1 and height to the big-endian u16 of
\* bytes 2-3 (00 50 00 18 gives 80 x 24); a shorter payload leaves width and
\* height unchanged.
C14_Naws ==
    SubNegotiating(NAWS) =>
        LET d == hist.msg.data
            c == prot.capabilities
        IN  /\ Len(d) >= 4 => c.width = u16(d[1], d[2]) /\ c.height = u16(d[3], d[4])
            /\ d = <<0, 80, 0, 24>> => c.width = 80 /\ c.height = 24
            /\ Len(d) < 4 => /\ c.width = hist.pre.capabilities.width
                             /\ c.height = hist.pre.capabilities.height

C14_Witness ==
    /\ SubNegotiating(NAWS)
    /\ hist.msg.data = <<1, 2, 3, 4, 5>>
    /\ hist.pre.capabilities.width = 80
    /\ prot.capabilities.width = 258 /\ prot.capabilities.height = 772

C14_WitnessShort ==
    /\ SubNegotiating(NAWS)
    /\ Len(hist.msg.data) < 4
    /\ hist.pre.capabilities.width = 80
    /\ prot.capabilities.width = 80

(***************************************************************************)
(* Properties of the MTTS handshake (SpecMtts).                            *)
(***************************************************************************)
SEND == <<IAC, SB, MTTS, 1, IAC, SE>>
CountSend(b) == Cardinality({i \in 1..(Len(b) - 5) : SubSeq(b, i, i + 5) = SEND})
\* IAC SB MTTS 0 <text> IAC SE with a text that is valid UTF-8
WellFormed(m) ==
    /\ m.type = "SubNegotiate" /\ m.op = MTTS
    /\ Len(m.data) >= 2 /\ m.data[1] = 0
    /\ from_utf8_ok(advance(m.data, 1))
\* the reply as the server compares and interprets it
Text(m) == to_uppercase(trim(advance(m.data, 1)))
ThreeReplies ==
    /\ Len(trace) = 4
    /\ trace[1] = Negotiate(WILL, MTTS)
    /\ \A i \in 2..4 : WellFormed(trace[i])
    /\ \A i, j \in 2..4 : i # j => Text(trace[i]) # Text(trace[j])

\* C15: after WILL MTTS and three well-formed, pairwise distinct replies the
\* server has sent exactly three SEND requests, the third reply was
\* interpreted by the round 2 interpreter, and handshakes_left.mtts is empty.
C15_ThreeRounds ==
    ThreeReplies =>
        /\ CountSend(prot.write_buff) = 3
        /\ prot.calls = << <<"receive_mtts_2", MTTS>> >>
        /\ prot.handshakes_left.mtts = {}

MttsBits ==
    { <<1, "ansi">>, <<2, "vt100">>, <<4, "utf8">>, <<8, "xterm256">>,
      <<16, "mouse_tracking">>, <<32, "osc_color_palette">>, <<64, "screen_reader">>,
      <<128, "proxy">>, <<256, "truecolor">>, <<512, "mnes">> }

\* C16: when the third MTTS reply is "MTTS <n>", every capability whose bit
\* is set in n is true afterwards and every capability whose bit is clear is
\* as it was before the reply; an unparsable n counts as 0.
C16_ThirdReplyBits ==
    (ThreeReplies /\ starts_with(Text(trace[4]), STR_MTTS_)) =>
        LET n == parse_usize(advance(Text(trace[4]), 5))
        IN  \A b \in MttsBits :
                prot.capabilities[b[2]] =
                    IF has_bit(n, b[1]) THEN TRUE ELSE hist.pre.capabilities[b[2]]

FirstReply ==
    /\ Len(trace) = 2
    /\ trace[1] = Negotiate(WILL, MTTS)
    /\ WellFormed(trace[2])

\* C17: the round 0 reply is split on its first space: the part before it
\* becomes client_name and the part after it client_version; a reply with no
\* space becomes client_name whole and leaves client_version unchanged.
C17_NameAndVersion ==
    FirstReply =>
        LET t == Text(trace[2])
            c == prot.capabilities
            sp == position(t, SPACE)
        IN  /\ ~prot.panicked
            /\ IF sp >= 0
               THEN /\ c.client_name = SubSeq(t, 1, sp)
                    /\ c.client_version = advance(t, sp + 1)
               ELSE /\ c.client_name = t
                    /\ c.client_version = hist.pre.capabilities.client_version

SameAsLast ==
    /\ hist.seen /\ WellFormed(hist.msg)
    /\ hist.pre.mtts_last.some
    /\ hist.pre.mtts_last.val = Text(hist.msg)

\* C18: a well-formed MTTS reply that equals, after trimming and uppercasing,
\* the recorded mtts_last leaves handshakes_left.mtts empty, changes no
\* capability and sends nothing; and while handshakes_left.mtts is empty no
\* MTTS reply makes the server send anything, so the client is not asked for
\* another round.
C18_LoopGuard ==
    /\ SameAsLast =>
          /\ prot.handshakes_left.mtts = {}
          /\ prot.capabilities = hist.pre.capabilities
          /\ prot.write_buff = hist.pre.write_buff
    /\ (SubNegotiating(MTTS) /\ hist.pre.handshakes_left.mtts = {}) =>
          prot.write_buff = hist.pre.write_buff

C18_Witness ==
    /\ SameAsLast
    /\ hist.prev_seen /\ WellFormed(hist.prev)
    /\ hist.prev.data # hist.msg.data
    /\ hist.pre.handshakes_left.mtts # {}
    /\ prot.handshakes_left.mtts = {}

(***************************************************************************)
(* Properties of line extraction (SpecLines, Spec).                        *)
(***************************************************************************)
RECURSIVE Stream(_)
Stream(t) == IF t = <<>> THEN <<>> ELSE t[1].data \o Stream(Tail(t))
LFs(s) == {i \in 1..Len(s) : s[i] = LF}
\* the bytes between the LF before position i (or the start) and position i
Segment(s, i) ==
    LET before == {k \in LFs(s) : k < i}
        j == IF before = {} THEN 0 ELSE CHOOSE k \in before : \A l \in before : l <= k
    IN  SubSeq(s, j + 1, i - 1)
Rest(s) ==
    IF LFs(s) = {} THEN s
    ELSE advance(s, CHOOSE k \in LFs(s) : \A l \in LFs(s) : l <= k)
ExpectedLines(s) ==
    LET good == Ascending({i \in LFs(s) : from_utf8_ok(Segment(s, i))})
    IN  [k \in 1..Len(good) |-> Line(trim(Segment(s, good[k])))]

\* C19: the events enqueued are one Line per LF of the stream whose segment
\* is valid UTF-8, in order, each with the segment trimmed of surrounding
\* whitespace (a CR before the LF included); the bytes after the last LF are
\* what app_buffer holds; and hello CR LF gives exactly one Line("hello").
C19_Lines ==
    /\ prot.buffer = ExpectedLines(Stream(trace))
    /\ prot.app_buffer = Rest(Stream(trace))
    /\ Stream(trace) = <<104, 101, 108, 108, 111, 13, LF>>
          => prot.buffer = <<Line(<<104, 101, 108, 108, 111>>)>>

C19_Witness ==
    /\ Len(trace) = 3
    /\ Len(trace[1].data) = 1 /\ trace[2].data = <<13, LF>>
    /\ prot.buffer = <<Line(<<104>>), Line(<<>>)>>
    /\ prot.app_buffer = <<195>>

C19_WitnessDropped ==
    /\ Len(trace) = 2
    /\ Cardinality(LFs(Stream(trace))) = 2
    /\ prot.buffer = <<Line(<<104>>)>>

EscapedFrame == <<65, IAC, IAC, 66, LF>>
\* the frame is all the peer has sent, and the k bytes still to arrive aside,
\* it has been read and decoded
EscapedDecoded(k) ==
    /\ trace = <<EscapedFrame>>
    /\ Len(pending) = k /\ read_buff = <<>> /\ ~new_data
    /\ ~prot.panicked

\* C20 as stated: once the bytes A IAC IAC B LF have been received and
\* decoded, the event queue holds exactly one Line, whose text is A, the
\* 0xFF literal (as the byte or as the character U+00FF), B.
C20_EscapedLine ==
    EscapedDecoded(0) =>
        /\ Len(prot.buffer) = 1
        /\ prot.buffer[1].type = "Line"
        /\ prot.buffer[1].text \in {<<65, IAC, 66>>, <<65, 195, 191, 66>>}

\* C20: the escaped 0xFF literal survives into the line buffer (app_buffer
\* is A 0xFF B once everything before the LF has been decoded), and when the
\* LF has been decoded the line has been dropped as invalid UTF-8: no Line
\* event is enqueued and app_buffer is empty.
C20_EscapedLineDropped ==
    /\ EscapedDecoded(1) => prot.app_buffer = <<65, IAC, 66>> /\ prot.buffer = <<>>
    /\ EscapedDecoded(0) => prot.app_buffer = <<>> /\ prot.buffer = <<>>

C20_Witness ==
    /\ EscapedDecoded(0)
    /\ prot.app_buffer = <<>>
    /\ prot.buffer = <<>>

C20_WitnessBuffered ==
    /\ EscapedDecoded(1)
    /\ prot.app_buffer = <<65, IAC, 66>>

(***************************************************************************)
(* Properties of the out-event serializer (SpecOut).                       *)
(***************************************************************************)
\* the texts handed to send_text so far, oldest first
Written == [k \in DOMAIN prot.calls |-> prot.calls[k][2]]
RECURSIVE TextsOf(_)
TextsOf(events) ==
    IF events = <<>> THEN <<>>
    ELSE (IF Head(events).type \in {"Line", "Prompt"} THEN <<Head(events).text>> ELSE <<>>)
         \o TextsOf(Tail(events))

\* C21: once the out-event queue has been drained, the texts serialized into
\* the outbound buffer are the texts of the out-events enqueued, Line and
\* Prompt alike, in the order they were enqueued: none lost, duplicated or
\* reordered.
C21_OutOrder ==
    eng.out_buffer = <<>> => Written = TextsOf(trace)

\* C22: every connection that is Negotiating eventually becomes Active,
\* whatever the peer sends or fails to send, and has then been given the
\* welcome prompt.
C22_EventuallyActive ==
    (accepted /\ eng.pstatus = "Negotiating")
        ~> (eng.pstatus = "Active" /\ eng.out_buffer # <<>>)

\* C23: once the status of a connection is no longer Active, no stage, in
\* the same or in a later tick, calls the transport's read or write on it:
\* every call of an I/O stage is made on an Active connection.
C23_NoIoAfterClose == \A k \in DOMAIN eng.io : eng.io[k].status = "Active"

\* C24: a connection whose status has become non-Active during a tick is no
\* longer in the connection set when that tick has ended.
C24_RemovedAtTickEnd ==
    (accepted /\ eng.stage = "listen" /\ eng.status # "Active") => ~eng.in_world

\* C25: bytes are handed to the transport's write only while the
\* connection's write_ready flag is true: the flag was set by a writable poll
\* event, in this tick or an earlier one, and no WouldBlock has cleared it
\* since; the writes that follow a successful write of the pass find it true.
C25_WriteOnlyWhenReady ==
    \A k \in DOMAIN eng.io :
        eng.io[k].op = "write" =>
            /\ eng.io[k].ready
            /\ k > 1 => eng.io[k - 1].kind = "Ok"
            /\ eng.io[k].kind = "WouldBlock" => ~eng.write_ready
\* a write that succeeds in a tick whose poll did not report the connection
\* writable: the flag is left from an earlier tick
C25_Witness ==
    /\ eng.stage = "health" /\ ~eng.poll_write
    /\ \E k \in DOMAIN eng.io : eng.io[k].op = "write" /\ eng.io[k].kind = "Ok"

\* the bytes the reads of the last read stage have returned, in order
RECURSIVE BytesOf(_)
BytesOf(io) == IF io = <<>> THEN <<>> ELSE Head(io).bytes \o BytesOf(Tail(io))

\* C26: after the read stage the inbound buffer is what it was before the
\* stage followed by exactly the bytes the successful reads of the pass
\* returned, in order, also when the pass ended with end of file or an
\* error; the stage removes nothing.
C26_ReadConserves ==
    eng.stage = "newdata" => read_buff = eng.before \o BytesOf(eng.io)
\* bytes were already buffered, two reads returned bytes and the pass ended
\* with an error or end of file
C26_Witness ==
    /\ eng.stage = "newdata" /\ eng.before # <<>>
    /\ Len(eng.io) = 3 /\ eng.io[3].kind # "WouldBlock"
    /\ read_buff = eng.before \o eng.io[1].bytes \o eng.io[2].bytes

\* the read stage has just run on a connection that was read-ready, and
\* the last transport call of the pass is the entry last of the I/O log
ReadPass == eng.stage = "newdata" /\ eng.poll_read
LastCall == eng.io[Len(eng.io)]

\* C28: the read loop stops at the first zero-length read (status becomes
\* ClientEOF), WouldBlock (status unchanged) or other error (status becomes
\* ClientError): every earlier call of the pass returned bytes.  new_data is
\* true after the stage if and only if a byte was appended in the pass.  A
\* connection that is not read-ready is left as it was: no call, buffer,
\* flag and status unchanged.
C28_ReadOutcome ==
    [][eng.stage = "read" =>
        IF eng.poll_read
        THEN LET io == eng'.io
                 last == io[Len(io)]
             IN  /\ io # <<>>
                 /\ \A k \in 1..(Len(io) - 1) : io[k].kind = "Ok" /\ io[k].len > 0
                 /\ last.kind = "Ok" => last.len = 0 /\ eng'.status = "ClientEOF"
                 /\ last.kind = "WouldBlock" => eng'.status = eng.status
                 /\ last.kind = "Other" => eng'.status = "ClientError"
                 /\ new_data' = (new_data \/ Len(read_buff') > Len(read_buff))
                 /\ ~new_data
        ELSE /\ eng'.io = <<>>
             /\ read_buff' = read_buff /\ new_data' = new_data
             /\ eng'.status = eng.status /\ eng'.write_ready = eng.write_ready
             /\ prot' = prot /\ pending' = pending]_vars
\* a pass that appended bytes and ended with end of file
C28_Witness ==
    /\ ReadPass /\ Len(eng.io) > 1
    /\ LastCall.kind = "Ok" /\ LastCall.len = 0
    /\ eng.status = "ClientEOF" /\ new_data
\* a pass that ended with WouldBlock at once: nothing appended, flag false
C28_WitnessIdle ==
    /\ ReadPass /\ Len(eng.io) = 1 /\ LastCall.kind = "WouldBlock"
    /\ eng.status = "Active" /\ ~new_data
\* the stage has passed over a connection that was not read-ready while
\* bytes were waiting for it
C28_WitnessSkipped ==
    eng.stage = "newdata" /\ ~eng.poll_read /\ pending # <<>> /\ eng.io = <<>>

\* C29: the bytes the transport has accepted followed by the outbound
\* buffer are, in order, everything the FSM has enqueued: partial writes,
\* WouldBlock and write errors lose, duplicate and reorder nothing.  A pass
\* of the write stage that ends with an error other than WouldBlock leaves
\* the status as it was and the buffer holding all that was not accepted
\* before the error.
C29_WriteConserves ==
    [][/\ eng'.sent \o prot'.write_buff = eng'.enqueued
       /\ eng.stage = "outgoing" =>
             LET io == eng'.io
             IN  /\ IsPrefix(eng.sent, eng'.sent)
                 /\ eng'.sent \o prot'.write_buff = eng.sent \o prot.write_buff
                 /\ (io # <<>> /\ io[Len(io)].kind = "Other") =>
                       /\ eng'.status = eng.status
                       /\ eng'.write_ready
                       /\ io[1].kind = "Other" => prot'.write_buff = prot.write_buff]_vars
\* a partial write followed by an error: some bytes accepted, the rest kept
C29_Witness ==
    /\ eng.stage = "health" /\ Len(eng.io) = 2
    /\ eng.io[1].kind = "Ok" /\ eng.io[2].kind = "Other"
    /\ eng.sent # <<>> /\ prot.write_buff # <<>>
    /\ LET started == start(ProtocolComponent_telnet(TelnetOptionsDefault),
                             Ascending(DOMAIN TelnetOptionsDefault))
       IN  Len(eng.enqueued) > Len(started.write_buff)

C30_WitnessSsh ==
    /\ accepted /\ eng.protocol = "SSH" /\ eng.stage = "listen"
    /\ eng.age = 1 /\ eng.pstatus = "Active"
    /\ eng.returned # <<>> /\ eng.write_ready

\* C27: setup ends in a panic exactly when the net section is missing, the
\* listeners section is absent or names no listener, or a listener it names
\* cannot be bound; otherwise, with at least one listener that can be bound,
\* it succeeds.
C27_Startup ==
    eng.outcome # "new" =>
        LET c == eng.config
        IN  eng.outcome = "panic" <=>
                \/ ~c.net
                \/ ~c.listeners
                \/ \A k \in ListenerKinds : c.l[k] = "None"
                \/ \E k \in ListenerKinds : c.l[k] = "unbindable"

\* tokens of a sequence of records are non-zero and strictly increasing in
\* the order they were minted
Increasing(records) ==
    /\ \A i \in DOMAIN records : records[i].token > 0
    /\ \A i, j \in DOMAIN records : i < j => records[i].token < records[j].token

\* C31: every token minted from the connection sequence, and from the
\* listener sequence, is non-zero and greater than every token minted
\* earlier from that sequence: no two connections share a token, and a poll
\* event's token names at most one connection.
C31_Tokens ==
    /\ Increasing(eng.conns) /\ Increasing(eng.listeners)
    /\ \A t \in 0..eng.conn_next :
          Cardinality({i \in DOMAIN eng.conns : eng.conns[i].token = t}) <= 1
\* three connections accepted on two listeners
C31_Witness ==
    /\ Len(eng.listeners) = 2 /\ Len(eng.conns) >= 3
    /\ eng.conns[1].protocol # eng.conns[3].protocol

\* the sub-negotiations receive_sub and its handlers pass over
Ignored(m) ==
    /\ m.type = "SubNegotiate"
    /\ \/ m.op \notin DOMAIN hist.pre.op_state
       \/ m.op \notin {NAWS, MTTS}
       \/ m.op = NAWS /\ Len(m.data) < 4
       \/ m.op = MTTS /\ (Len(m.data) < 2 \/ m.data[1] # 0)

\* C32: a sub-negotiation for an option that is not in the state table, for
\* a table option other than NAWS and MTTS, a NAWS payload of fewer than 4
\* bytes, or an MTTS payload of fewer than 2 bytes or whose first byte is
\* not 0, leaves the whole record as it was: option states, capabilities,
\* handshake sets, mtts_last, events and outbound bytes; no hook runs.
C32_IgnoredSub ==
    (hist.seen /\ Ignored(hist.msg)) => prot = [hist.pre EXCEPT !.calls = <<>>]
\* an MTTS reply with a wrong first byte while the handshake is under way,
\* in which the same text after a 0 byte is taken up
C32_Witness ==
    /\ hist.seen /\ hist.msg = SubNegotiate(MTTS, <<1, 65>>)
    /\ hist.pre.handshakes_left.mtts # {}
    /\ process_message(hist.pre, SubNegotiate(MTTS, <<0, 65>>)).mtts_last # hist.pre.mtts_last
\* a sub-negotiation for an option that is not in the table
C32_WitnessAbsent ==
    hist.seen /\ hist.msg = SubNegotiate(MXP, <<1>>) /\ hist.prev_seen
\* a sub-negotiation for GMCP, which is in the table and enabled
C32_WitnessNoHandler ==
    /\ hist.seen /\ hist.msg = SubNegotiate(GMCP, <<65>>)
    /\ hist.pre.op_state[GMCP].local.enabled

\* C33: every out-event drained from the queue of a Telnet connection is
\* serialized into the outbound buffer, whatever its kind (Line, Prompt,
\* MSSP, OOB): a drain of n out-events appends at least n bytes, none of
\* them leaves the queue without output.
C33_AllKindsSerialized ==
    [][(eng.out_buffer # <<>> /\ eng'.out_buffer = <<>>) =>
          /\ IsPrefix(prot.write_buff, prot'.write_buff)
          /\ Len(prot'.write_buff) >= Len(prot.write_buff) + Len(eng.out_buffer)]_vars

C34_WitnessPanic ==
    /\ eng.stage = "newdata" /\ eng.done = StageConns
    /\ peers[1].p.panicked /\ peers[2].p.buffer # <<>>

\* C35: whenever new_data is true the inbound buffer is not empty, and the
\* flag is false once the decode stage has run: it is true only between the
\* read stage and the decode stage of a tick, and false at the end of
\* every tick.
C35_InboundDirty ==
    /\ new_data => read_buff # <<>>
    /\ new_data => eng.stage \in {"newdata", "panicked"}
    /\ eng.stage \in {"outgoing", "health", "listen", "poll", "read"} => ~new_data
\* the decode stage has cleared the flag and left an incomplete frame in
\* the inbound buffer
C35_Witness ==
    /\ eng.stage = "outgoing" /\ ~new_data
    /\ eng.poll_read /\ eng.io # <<>> /\ eng.io[1].len > 0
    /\ read_buff # <<>>
\* the read stage has set the flag
C35_WitnessDirty ==
    eng.stage = "newdata" /\ new_data /\ eng.age > 0 /\ eng.before # <<>>

\* the bytes of the frames the peer has sent, in order
RECURSIVE FramesOf(_)
FramesOf(t) == IF t = <<>> THEN <<>> ELSE Head(t) \o FramesOf(Tail(t))

\* the record is what one decode pass over the stream s makes of a
\* connection that has just been started
Unsplit(s) ==
    \E keys \in StartOrders(TelnetOptionsDefault) :
        LET started == start(ProtocolComponent_telnet(TelnetOptionsDefault), keys)
            whole == process_new_data(started, s)[1]
        IN  [prot EXCEPT !.calls = <<>>] = [whole EXCEPT !.calls = <<>>]

\* C36: however the inbound stream is split across reads and decode passes,
\* the events emitted, the bytes sent in reply and the final FSM and
\* capability state are those of the unsplit stream: once the stream has
\* been taken up, the record equals the one a single pass over the whole
\* stream gives.
C36_ChunkingIndependent ==
    (accepted /\ (prot.panicked \/ (pending = <<>> /\ ~new_data))) =>
        Unsplit(FramesOf(trace))

(***************************************************************************)
(* Properties of the option hooks and the policy table (SpecOptions).      *)
(***************************************************************************)
\* C37: capabilities.sga is the SGA local.enabled flag, capabilities.naws
\* the NAWS remote.enabled flag and capabilities.linemode the LINEMODE
\* remote.enabled flag, in every reachable state.
C37_Mirror ==
    /\ prot.capabilities.sga = prot.op_state[SGA].local.enabled
    /\ prot.capabilities.naws = prot.op_state[NAWS].remote.enabled
    /\ prot.capabilities.linemode = prot.op_state[LINEMODE].remote.enabled
\* SGA has been enabled and is disabled again, NAWS is enabled
C37_Witness ==
    /\ hist.seen /\ hist.msg = Negotiate(DONT, SGA)
    /\ hist.pre.capabilities.sga /\ ~prot.capabilities.sga
    /\ prot.capabilities.naws
\* the three capabilities are set
C37_WitnessAll ==
    prot.capabilities.sga /\ prot.capabilities.naws /\ prot.capabilities.linemode

\* C38: an option's local.enabled is true only if its policy has
\* allow_local and its remote.enabled only if its policy has allow_remote: a
\* DO for an option without allow_local (NAWS, MTTS, LINEMODE) is not
\* accepted.
C38_AllowHonoured ==
    \A op \in DOMAIN prot.op_state :
        /\ prot.op_state[op].local.enabled => prot.telnet_options[op].allow_local
        /\ prot.op_state[op].remote.enabled => prot.telnet_options[op].allow_remote

\* a NAWS sub-negotiation of at least 4 bytes is among the messages received
NawsReported ==
    \E k \in DOMAIN trace :
        /\ trace[k].type = "SubNegotiate" /\ trace[k].op = NAWS
        /\ Len(trace[k].data) >= 4

\* C39 as stated: in every state where NAWS is not remotely enabled, width
\* is 78 and height is 24 (a NAWS sub-negotiation received while NAWS is not
\* enabled does not change them).
C39_SizeTiedToNaws ==
    ~prot.op_state[NAWS].remote.enabled =>
        prot.capabilities.width = 78 /\ prot.capabilities.height = 24
\* C39: width and height are 78 and 24 as long as no NAWS sub-negotiation
\* of at least 4 bytes has been received; such a sub-negotiation sets them
\* whether or not NAWS is enabled; a WONT NAWS while NAWS is enabled resets
\* them to 78 and 24 and clears capabilities.naws.
C39_SizeFollowsReports ==
    /\ ~NawsReported => prot.capabilities.width = 78 /\ prot.capabilities.height = 24
    /\ (SubNegotiating(NAWS) /\ Len(hist.msg.data) >= 4) =>
          /\ prot.capabilities.width = u16(hist.msg.data[1], hist.msg.data[2])
          /\ prot.capabilities.height = u16(hist.msg.data[3], hist.msg.data[4])
    /\ (hist.seen /\ hist.msg = Negotiate(WONT, NAWS)
            /\ hist.pre.op_state[NAWS].remote.enabled) =>
          /\ prot.capabilities.width = 78 /\ prot.capabilities.height = 24
          /\ ~prot.capabilities.naws
\* NAWS was enabled and had reported 80 columns, and has been withdrawn
C39_Witness ==
    /\ hist.seen /\ hist.msg = Negotiate(WONT, NAWS)
    /\ hist.pre.op_state[NAWS].remote.enabled
    /\ hist.pre.capabilities.width = 80
    /\ prot.capabilities.width = 78
\* a size reported while NAWS is not enabled has been taken up
C39_WitnessNotEnabled ==
    /\ SubNegotiating(NAWS) /\ ~hist.pre.op_state[NAWS].remote.enabled
    /\ hist.pre.capabilities.width = 78 /\ prot.capabilities.width = 80

(***************************************************************************)
(* Termination of the decode loop (SpecCodec: one from_bytes call and one  *)
(* advance per step, until the codec gives no message).                    *)
(***************************************************************************)
\* a buffer that starts a frame the codec is still waiting for: one of the
\* incomplete frames, or IAC SB IAC SE, which has no option byte yet
Unfinished(b) ==
    /\ b # <<>>
    /\ b[1] = IAC
    /\ Incomplete(b) \/ b = <<IAC, SB, IAC, SE>>

\* C40: the decode pass terminates for every finite buffer: every message
\* the codec returns consumes at least one byte of the buffer, the pass
\* comes to its end (it is not cut short by a panic), and when it stops the
\* buffer is empty or begins with the IAC of an incomplete frame.
C40_DecodeTerminates ==
    /\ answer.kind = "Some" =>
          answer.len >= 1 /\ Len(src) = Len(input) - answer.len
    /\ answer.kind # "Panic"
    /\ answer.kind = "None" => (src = <<>> \/ Unfinished(src))

====
